---- MODULE Spec2Model ----
(***************************************************************************)
(* A model of the EDGAR filing downloader: the token-bucket rate limiter   *)
(* (utils/rate_limit.py), the filing store (utils/sec_database.py), the    *)
(* downloader (edgar_downloader.py) and the daily-index batch driver       *)
(* (daily_downloader_inspect.py, in its two variants).                     *)
(*                                                                         *)
(* Four specifications share the module:                                   *)
(*   SpecId      filing_id as the writer and the readers compute it        *)
(*   SpecStore   the operations of SECDatabase on one store                *)
(*   SpecRL      SafeRateLimiter under concurrent callers (FairSpecRL      *)
(*               adds the scheduling assumptions)                          *)
(*   Spec        download_year_range driving download_filing               *)
(* Each specification leaves the variables of the others at their parked   *)
(* initial values.                                                         *)
(***************************************************************************)
EXTENDS Integers, Sequences, FiniteSets, TLC

VARIABLES
    idlog,        \* SpecId: the identities computed so far
    call,         \* SpecCalls: the last call of a parsing function: fn, arg, ret
    loop,         \* SpecRange: the loops of download_year_range
    retry,        \* FairSpecRetry: the loop of run_with_retry
    db,           \* the rows of table filings (shared by SpecStore and Spec)
    last,         \* SpecStore: the last store operation and what it returned
    downloaded_cache,  \* SECDatabase object: _downloaded_cache, filing_id -> bool
    batch,        \* SpecCache: the last batch check and what it reported
    rl,           \* SafeRateLimiter object: built, capacity, tokens, since_refill, lock
    rpc,          \* per caller: position inside acquire()
    nap,          \* per caller: ticks until its time.sleep returns
    hist,         \* per timed caller: calls, returns, time since the first call
    timed,        \* the callers' calls are counted and timed
    variant,      \* which daily_downloader_inspect.py drives the run
    run,          \* number of the current process run
    pc,           \* position of the driver
    q,            \* current quarter of the year range
    cur,          \* position of the current filing in the quarter's listing
    remoteIdx,    \* status the archive serves for each filing's index page
    dirs2,        \* ciks whose target_dir2 exists on disk
    stats,        \* quarter statistics of pure_parse_daily_index
    overall,      \* overall_stats of download_year_range
    visit,        \* the processing of the current filing: requests, files written
    prevDone,     \* the previous run ended by completing the year range
    lastEv,       \* what session.get did in the request of the last step, if any
    acquired      \* the limiter objects on which this run has called acquire()

idVars    == <<idlog, call, loop, retry>>
storeVars == <<last, downloaded_cache, batch>>
rlVars    == <<rl, rpc, nap, hist, timed>>
orchVars  == <<variant, run, pc, q, cur, remoteIdx, dirs2, stats, overall,
               visit, prevDone, lastEv, acquired>>
vars      == <<idlog, call, loop, retry, db, last, downloaded_cache, batch, rl, rpc, nap, hist, timed, variant, run, pc, q,
               cur, remoteIdx, dirs2, stats, overall, visit, prevDone, lastEv,
               acquired>>

(***************************************************************************)
(* Bounds of the model.                                                    *)
(***************************************************************************)
MaxCikLen   == 11   \* longest cik path segment drawn
MaxAccLen   == 2    \* longest accession number drawn
NFilings    == 2    \* filings listed by the archive
MaxFiles    == 2    \* largest file_count drawn for a store record
NThreads    == 2    \* concurrent callers of acquire()
MaxCalls    == 3    \* acquire() calls per timed caller
MaxCapacity == 2    \* largest capacity a limiter is built with
Scale       == 2    \* token units per token; one tick refills one unit
NQuarters   == 2    \* quarters of the year range
MaxRuns     == 2    \* process runs over the same store
MaxLines    == 3    \* lines of an index file
MaxRows     == 2    \* matched rows in a section of a filing index page
MaxLinks    == 2    \* index files a quarter listing names
MaxListed   == 2    \* filings an index file lists
MaxRetries  == 3    \* largest max_retries drawn (100 by default in the source)
cache_size_limit == 1  \* entries _downloaded_cache takes (10000 in the source)

(***************************************************************************)
(* Strings are sequences of one-character strings.                         *)
(***************************************************************************)
Rep(c, n) == [i \in 1..n |-> c]

SeqsUpTo(S, n) == UNION {[1..k -> S] : k \in 1..n}

Range(s) == {s[i] : i \in DOMAIN s}

\* str.zfill(width): left-pad with "0" up to width, longer strings unchanged
zfill(s, width) == IF Len(s) >= width THEN s ELSE Rep("0", width - Len(s)) \o s

CIK_WIDTH == 10

\* wait_time=10, the default of run_with_retry
RetryWaitTime == 10

FORM_TYPES == {"10-K", "10-Q", "10-K/A", "10-Q/A"}

\* cik path segments of the index lines: digit strings of every length
RawCiks == {Rep("1", n) : n \in 1..MaxCikLen}

\* accession numbers: the file name up to its first dot
AccChars == {"1", "-", "_"}
Accessions == SeqsUpTo(AccChars, MaxAccLen)

\* parse_daily_index_line: cik = file_name.split('/')[-2].zfill(10)
ParsedCik(raw) == zfill(raw, CIK_WIDTH)

(***************************************************************************)
(* filing_id, at the three places that compute it.                         *)
(***************************************************************************)
\* a faulty writer: the two parts joined without the separator
FilingIdNoSeparator(cik, accession_number) == cik \o accession_number

\* download_filing: 'filing_id': f"{cik}_{accession_number}"
FilingIdWriter(cik, accession_number) == cik \o <<"_">> \o accession_number

\* a faulty reader: the accession number alone
FilingIdAccessionOnly(cik, accession_number) == accession_number

\* is_filing_downloaded: filing_id = f"{cik}_{accession_number}"
FilingIdReader(cik, accession_number) == cik \o <<"_">> \o accession_number

\* a faulty delete: the cik alone
FilingIdCikOnly(cik, accession_number) == cik

\* delete_filing_record: params = f"{cik}_{accession_number}"
FilingIdDelete(cik, accession_number) == cik \o <<"_">> \o accession_number

(***************************************************************************)
(* SpecId: identities are computed for parsed index lines.                 *)
(***************************************************************************)
NoCall == [fn |-> "none", arg |-> <<>>, ret |-> <<>>]

\* download_year_range has not been called
NoLoop == [pc |-> "idle", start |-> 0, end |-> 0, yk |-> 0, year |-> 0, qk |-> 0,
           links |-> <<>>, ik |-> 0, filings |-> <<>>, fk |-> 0,
           quarters |-> <<>>, idxDone |-> <<>>, filDone |-> <<>>]

\* run_with_retry has not been called
NoRetry == [pc |-> "idle", script_name |-> "", max_retries |-> 0, attempt |-> 0,
            runs |-> <<>>, slept |-> 0]

IdInit == idlog = <<>> /\ call = NoCall /\ loop = NoLoop /\ retry = NoRetry

ComputeId ==
    /\ Len(idlog) < 2
    /\ \E raw \in RawCiks, acc \in Accessions :
          LET cik == ParsedCik(raw) IN
          idlog' = Append(idlog, [cik |-> cik, acc |-> acc,
                                  w |-> FilingIdWriter(cik, acc),
                                  r |-> FilingIdReader(cik, acc),
                                  d |-> FilingIdDelete(cik, acc)])

ForgetIds ==
    /\ Len(idlog) = 2
    /\ idlog' = <<>>

(***************************************************************************)
(* The daily index file.  A line is what the pattern of                    *)
(* parse_daily_index_line sees of it: whether it is all dashes, whether    *)
(* the pattern matches, its form type, and its file name split at "/"      *)
(* (the last segment stands for the accession number, the name up to the   *)
(* first dot).                                                             *)
(***************************************************************************)
EdgarSeg == <<"e", "d", "g", "a", "r">>

DataSeg == <<"d", "a", "t", "a">>

AccSeg == <<"1", "-", "1">>

IndexPaths ==
    {<<AccSeg>>} \cup {<<EdgarSeg, DataSeg, raw, AccSeg>> :
                          raw \in {Rep("1", 1), Rep("1", CIK_WIDTH + 1)}}

IndexLines ==
    {[kind |-> "dashes", form_type |-> "", path |-> <<>>],
     [kind |-> "other", form_type |-> "", path |-> <<>>]}
    \cup {[kind |-> "entry", form_type |-> form, path |-> p] :
             form \in {"10-K", "10-Q/A", "8-K"}, p \in IndexPaths}

IndexFiles == {<<>>} \cup SeqsUpTo(IndexLines, MaxLines)

None == [none |-> TRUE]

\* parse_daily_index_line: None when the pattern does not match, when
\* file_name.split('/')[-2] raises IndexError (caught by except Exception), and
\* when the form type is not a target form
parse_daily_index_line(line) ==
    IF line.kind # "entry" THEN None
    ELSE IF Len(line.path) < 2 THEN None
    ELSE IF line.form_type \in FORM_TYPES
         THEN [none |-> FALSE, form_type |-> line.form_type,
               cik |-> ParsedCik(line.path[Len(line.path) - 1]),
               accession_number |-> line.path[Len(line.path)]]
         ELSE None

\* the index of the first line with set(line) == {'-'}, 0 if there is none
FirstDashes(lines) ==
    IF \E i \in DOMAIN lines : lines[i].kind = "dashes"
    THEN CHOOSE i \in DOMAIN lines :
            /\ lines[i].kind = "dashes"
            /\ \A j \in 1..(i - 1) : lines[j].kind # "dashes"
    ELSE 0

RECURSIVE ParseLines(_)
ParseLines(lines) ==
    IF lines = <<>> THEN <<>>
    ELSE LET filing == parse_daily_index_line(Head(lines)) IN
         (IF ~filing.none /\ filing.form_type \in FORM_TYPES THEN <<filing>> ELSE <<>>)
         \o ParseLines(Tail(lines))

\* pure_parse_daily_single_index on the text of a fetched index file: without
\* an all-dash line data_start is unbound and lines[data_start:] raises
pure_parse_daily_single_index(lines) ==
    LET d == FirstDashes(lines) IN
    IF d = 0
    THEN [raised |-> TRUE, filings |-> <<>>]
    ELSE [raised |-> FALSE, filings |-> ParseLines(SubSeq(lines, d + 1, Len(lines)))]

\* the caller has taken the result
Forget ==
    /\ call # NoCall
    /\ call' = NoCall

CallParseIndex ==
    /\ call = NoCall
    /\ \E lines \in IndexFiles :
        call' = [fn |-> "pure_parse_daily_single_index", arg |-> lines,
                 ret |-> pure_parse_daily_single_index(lines)]

(***************************************************************************)
(* The filing index page.  A section is the sequence of its rows that the  *)
(* row pattern matches: description, type and link, each with its tags     *)
(* stripped.  A section map is a dict: a sequence of entries in insertion   *)
(* order, in which a key occurs once.                                       *)
(***************************************************************************)
HrefHtm == <<"a", ".", "h", "t", "m">>

HrefHtml == <<"b", ".", "h", "t", "m", "l">>

HrefTxt == <<"c", ".", "t", "x", "t">>

HrefXsd == <<"s", ".", "x", "s", "d">>

COMPLETE_ROW == "Complete submission text file"

DocRows ==
    {[description |-> d, type |-> "10-K", href |-> h] :
        d \in {"", "Annual report"}, h \in {HrefHtm, HrefHtml, HrefXsd}}
    \cup {[description |-> COMPLETE_ROW, type |-> "", href |-> HrefTxt]}

DataRows ==
    {[description |-> d, type |-> "EX-101.SCH", href |-> h] :
        d \in {"", "Annual report"}, h \in {HrefXsd, HrefHtm}}

Pages ==
    {[doc |-> dr, data |-> xr] :
        dr \in {<<>>} \cup SeqsUpTo(DocRows, MaxRows),
        xr \in {<<>>} \cup SeqsUpTo(DataRows, MaxRows)}

\* str.endswith(suffix)
EndsWith(s, suffix) ==
    /\ Len(s) >= Len(suffix)
    /\ SubSeq(s, Len(s) - Len(suffix) + 1, Len(s)) = suffix

\* href.endswith(('htm', 'html', 'txt'))
EndsWithHtmHtmlTxt(href) ==
    \/ EndsWith(href, <<"h", "t", "m">>)
    \/ EndsWith(href, <<"h", "t", "m", "l">>)
    \/ EndsWith(href, <<"t", "x", "t">>)

Keys(m) == {m[i].key : i \in DOMAIN m}

\* m[key] = value on a dict: replaced in place, or appended
Put(m, key, value) ==
    IF key \in Keys(m)
    THEN [i \in DOMAIN m |-> IF m[i].key = key THEN [key |-> key, value |-> value]
                                                ELSE m[i]]
    ELSE Append(m, [key |-> key, value |-> value])

\* str(count)
Str(n) == <<"0", "1", "2", "3", "4", "5", "6", "7", "8", "9">>[n + 1]

\* the key a row is stored under and the counter after it.  `type` in the
\* source is the builtin, so `description == "" and type != ""` is
\* `description == ""` and the branch that numbers empty descriptions is dead;
\* both sections look for a repeated description in doc_format_files
RowKey(row, doc_format_files, count) ==
    IF row.description = ""
    THEN [key |-> row.type, count |-> count]
    ELSE IF row.description \in Keys(doc_format_files)
         THEN [key |-> Str(count), count |-> count + 1]
         ELSE [key |-> row.description, count |-> count]

\* lines 21-52 of "EDGAR - Copy": the rows of the Document Format Files section
RECURSIVE DocSection(_, _, _)
DocSection(rows, doc_format_files, count) ==
    IF rows = <<>> THEN [files |-> doc_format_files, count |-> count]
    ELSE LET row == Head(rows)
             k == RowKey(row, doc_format_files, count) IN
         DocSection(Tail(rows),
                    IF EndsWithHtmHtmlTxt(row.href)
                    THEN Put(doc_format_files, k.key,
                             [type |-> row.type, doc |-> row.href])
                    ELSE doc_format_files,
                    k.count)

\* lines 59-89 of "EDGAR - Copy": the rows of the Data Files section
RECURSIVE DataSection(_, _, _, _)
DataSection(rows, doc_format_files, data_files, count) ==
    IF rows = <<>> THEN data_files
    ELSE LET row == Head(rows)
             k == RowKey(row, doc_format_files, count) IN
         DataSection(Tail(rows), doc_format_files,
                     Put(data_files, k.key, [type |-> row.type, doc |-> row.href]),
                     k.count)

\* extract_sec_filing_data of "EDGAR - Copy"/utils/index_parser.py
extract_sec_filing_data(page) ==
    LET d == DocSection(page.doc, <<>>, 0) IN
    [documentFormatFiles |-> d.files,
     dataFiles |-> DataSection(page.data, d.files, <<>>, d.count)]

\* a section of EDGAR/utils/index_parser.py: the description is the key, and
\* both sections keep a row only if its link ends in htm, html or txt
RECURSIVE FilteredSection(_, _)
FilteredSection(rows, files) ==
    IF rows = <<>> THEN files
    ELSE LET row == Head(rows) IN
         FilteredSection(Tail(rows),
                         IF EndsWithHtmHtmlTxt(row.href)
                         THEN Put(files, row.description,
                                  [type |-> row.type, doc |-> row.href])
                         ELSE files)

\* extract_sec_filing_data of EDGAR/utils/index_parser.py
extract_sec_filing_data_EDGAR(page) ==
    [documentFormatFiles |-> FilteredSection(page.doc, <<>>),
     dataFiles |-> FilteredSection(page.data, <<>>)]

CallExtract ==
    /\ call = NoCall
    /\ \E page \in Pages, parser \in {"EDGAR - Copy", "EDGAR"} :
          call' = [fn |-> "extract_sec_filing_data",
                   arg |-> [page |-> page, parser |-> parser],
                   ret |-> IF parser = "EDGAR" THEN extract_sec_filing_data_EDGAR(page)
                           ELSE extract_sec_filing_data(page)]

(***************************************************************************)
(* required_urls on the rows of the filing index page.  A URL map is a     *)
(* dict in insertion order; its keys are tuples of strings so that the     *)
(* composed keys (the "xbrl_" prefix, the stem of a file name) compare.    *)
(***************************************************************************)
\* the input URLs of required_urls: the file names of the daily index
Filenames == {<<"https://www.sec.gov", "/", "1", "/", "x", ".", "t", "x", "t">>,
              <<"https://www.sec.gov", "/", "2", "/", "y", ".", "t", "x", "t">>}

\* f"https://www.sec.gov{value['doc']}"
Abs(doc) == <<"https://www.sec.gov">> \o doc

\* str.isdigit()
IsDigit(s) == s \in {"0", "1", "2", "3", "4", "5", "6", "7", "8", "9"}

\* "nbsp" in url_key
HasNbsp(s) == s \in {"&nbsp;", "nbsp"}

RECURSIVE Stem(_)
\* value['doc'].split('/')[-1].split(".")[0] for a link without directories
Stem(doc) ==
    IF doc = <<>> \/ Head(doc) = "." THEN <<>> ELSE <<Head(doc)>> \o Stem(Tail(doc))

\* href.endswith(('.htm', '.html'))
EndsWithDotHtm(href) ==
    \/ EndsWith(href, <<".", "h", "t", "m">>)
    \/ EndsWith(href, <<".", "h", "t", "m", "l">>)

\* urls[key] of a key the map has
Get(m, key) == m[CHOOSE i \in DOMAIN m : m[i].key = key].value

\* the loop over doc_files.items(), lines 203-217; the entry of the complete
\* submission text file was stored before the loop (lines 198-200)
RECURSIVE DocUrls(_, _)
DocUrls(doc_files, urls) ==
    IF doc_files = <<>> THEN urls
    ELSE LET key == Head(doc_files).key
             value == Head(doc_files).value IN
         DocUrls(Tail(doc_files),
                 IF key = COMPLETE_ROW THEN urls
                 ELSE IF IsDigit(key) /\ IsDigit(value.type)
                      THEN Put(urls, Stem(value.doc), Abs(value.doc))
                 ELSE IF EndsWithDotHtm(value.doc)
                      THEN IF ~HasNbsp(value.type)
                           THEN Put(urls, <<value.type>>, Abs(value.doc))
                           ELSE Put(urls, <<key>>, Abs(value.doc))
                 ELSE urls)

\* the loop over data_files.items(), lines 220-232
RECURSIVE DataUrls(_, _)
DataUrls(data_files, urls) ==
    IF data_files = <<>> THEN urls
    ELSE LET key == Head(data_files).key
             value == Head(data_files).value IN
         DataUrls(Tail(data_files),
                  IF ~HasNbsp(value.type)
                  THEN IF key = "EXTRACTED XBRL INSTANCE DOCUMENT"
                       THEN Put(urls, <<"xbrl_instance">>, Abs(value.doc))
                       ELSE IF IsDigit(key) /\ IsDigit(value.type)
                            THEN Put(urls, Stem(value.doc), Abs(value.doc))
                            ELSE Put(urls, <<"xbrl_", value.type>>, Abs(value.doc))
                  ELSE Put(urls, <<"xbrl_", key>>, Abs(value.doc)))

\* the map with the spreadsheet URL that required_urls starts from (line 179)
XlsxOnly(filename) ==
    <<[key |-> <<"financial_report_xlsx">>,
       value |-> <<"Financial_Report.xlsx", filename[3]>>]>>

\* the outcomes of the request for the index page: a page with status 200, a
\* response with another status, an exception inside the try block
Outcomes == {"ok", "non200", "raises"}

\* required_urls without the fallback of lines 235-236
RequiredUrlsNoFallback(filename, outcome, result) ==
    IF outcome = "non200" THEN None
    ELSE IF outcome = "raises"
         THEN [none |-> FALSE,
               urls |-> Put(XlsxOnly(filename), <<"complete_txt">>, filename)]
    ELSE LET doc_files == result.documentFormatFiles
             found == COMPLETE_ROW \in Keys(doc_files)
             u1 == IF found
                   THEN Put(XlsxOnly(filename), <<"complete_txt">>,
                            Abs(Get(doc_files, COMPLETE_ROW).doc))
                   ELSE XlsxOnly(filename)
             u2 == DataUrls(result.dataFiles, DocUrls(doc_files, u1)) IN
         [none |-> FALSE, urls |-> u2]

\* required_urls, lines 176-242, on the parsed page `result`
required_urls_page(filename, outcome, result) ==
    IF outcome = "non200" THEN None
    ELSE IF outcome = "raises"
         THEN [none |-> FALSE,
               urls |-> Put(XlsxOnly(filename), <<"complete_txt">>, filename)]
    ELSE LET doc_files == result.documentFormatFiles
             found == COMPLETE_ROW \in Keys(doc_files)
             u1 == IF found
                   THEN Put(XlsxOnly(filename), <<"complete_txt">>,
                            Abs(Get(doc_files, COMPLETE_ROW).doc))
                   ELSE XlsxOnly(filename)
             u2 == DataUrls(result.dataFiles, DocUrls(doc_files, u1))
             u3 == IF found THEN u2 ELSE Put(u2, <<"complete_txt">>, filename) IN
         [none |-> FALSE, urls |-> u3]

CallRequiredUrls ==
    /\ call = NoCall
    /\ \E filename \in Filenames, outcome \in Outcomes, page \in Pages,
          parser \in {"EDGAR - Copy", "EDGAR"} :
          /\ outcome # "ok" => (page = [doc |-> <<>>, data |-> <<>>] /\ parser = "EDGAR")
          /\ call' = [fn |-> "required_urls",
                      arg |-> [filename |-> filename, outcome |-> outcome,
                               page |-> page, parser |-> parser],
                      ret |-> required_urls_page(filename, outcome,
                                 IF parser = "EDGAR"
                                 THEN extract_sec_filing_data_EDGAR(page)
                                 ELSE extract_sec_filing_data(page))]

(***************************************************************************)
(* SECDatabase: table filings, one row per filing_id.                      *)
(***************************************************************************)
\* the identities of the filings the archive lists
FilingCik(f) == ParsedCik(Rep("1", (f + 1) \div 2))

FilingAcc(f) == Rep("1", f)

FilingForm(f) == IF f % 2 = 1 THEN "10-K" ELSE "10-Q"

Filings == 1..NFilings

\* a faulty existence check: no filing is ever reported as downloaded
IsDownloadedNever(d, cik, accession_number) == FALSE

\* SELECT 1 FROM filings WHERE filing_id = ?
is_filing_downloaded(d, cik, accession_number) ==
    \E r \in d : r.filing_id = FilingIdReader(cik, accession_number)

\* the filing_id under which download_filing records filing f
FilingIdOf(f) == FilingIdWriter(FilingCik(f), FilingAcc(f))

StoredIds(d) == {r.filing_id : r \in d}

\* add_filing whose write reaches the table before the storage layer raises
AddFilingWritesThenFails(d, row, fault) ==
    IF fault = "missing_key"
    THEN [db |-> d, ok |-> FALSE]
    ELSE [db |-> {r \in d : r.filing_id # row.filing_id} \cup {row},
          ok |-> fault = "none"]

\* add_filing with INSERT OR IGNORE: a stored record is kept as it is
AddFilingKeepsOld(d, row, fault) ==
    IF fault # "none"
    THEN [db |-> d, ok |-> FALSE]
    ELSE [db |-> IF row.filing_id \in StoredIds(d) THEN d ELSE d \cup {row},
          ok |-> TRUE]

\* INSERT OR REPLACE INTO filings ...; any exception is logged and gives False
add_filing(d, row, fault) ==
    IF fault # "none"
    THEN [db |-> d, ok |-> FALSE]
    ELSE [db |-> {r \in d : r.filing_id # row.filing_id} \cup {row}, ok |-> TRUE]

\* delete_filing_record with DELETE FROM filings WHERE cik = ?
DeleteFilingByCik(d, cik, accession_number) ==
    [db |-> {r \in d : r.cik # cik},
     count |-> Cardinality({r \in d : r.cik = cik})]

\* DELETE FROM filings WHERE filing_id = ?; returns cursor.rowcount
delete_filing_record(d, cik, accession_number) ==
    [db |-> {r \in d : r.filing_id # FilingIdDelete(cik, accession_number)},
     count |-> Cardinality({r \in d :
                   r.filing_id = FilingIdDelete(cik, accession_number)})]

\* the dictionary download_filing hands to add_filing
FilingData(cik, accession_number, form_type, file_count) ==
    [filing_id |-> FilingIdWriter(cik, accession_number), cik |-> cik,
     accession_number |-> accession_number, form_type |-> form_type,
     file_count |-> file_count]

AddFaults == {"none", "missing_key", "storage_error"}

\* before: the number of rows of the filing when the operation began
NoOp == [op |-> "none", f |-> 0, ok |-> FALSE, result |-> 0, before |-> 0]

\* self._downloaded_cache = {}
EmptyCache == [id \in {} |-> FALSE]

NoBatch == [op |-> "none", ids |-> <<>>, present |-> {}]

StoreInit == db = {} /\ last = NoOp /\ downloaded_cache = EmptyCache /\ batch = NoBatch

StoreAdd ==
    \E f \in Filings, form \in FORM_TYPES, n \in 1..MaxFiles, fault \in AddFaults :
        LET res == add_filing(db, FilingData(FilingCik(f), FilingAcc(f), form, n), fault) IN
        /\ db' = res.db
        /\ last' = [op |-> "add", f |-> f, ok |-> res.ok, result |-> 0,
                    before |-> Cardinality({r \in db : r.filing_id = FilingIdOf(f)})]

StoreDelete ==
    \E f \in Filings :
        LET res == delete_filing_record(db, FilingCik(f), FilingAcc(f)) IN
        /\ db' = res.db
        /\ last' = [op |-> "delete", f |-> f, ok |-> TRUE, result |-> res.count,
                    before |-> Cardinality({r \in db : r.filing_id = FilingIdOf(f)})]

StoreCheck ==
    \E f \in Filings :
        /\ db' = db
        /\ last' = [op |-> "check", f |-> f, ok |-> TRUE,
                    result |-> IF is_filing_downloaded(db, FilingCik(f), FilingAcc(f))
                               THEN 1 ELSE 0,
                    before |-> Cardinality({r \in db : r.filing_id = FilingIdOf(f)})]

BatchInputs == {<<>>} \cup SeqsUpTo({FilingIdOf(f) : f \in Filings}, NFilings)

\* the loop over uncached_ids without the test of line 188
RECURSIVE CacheFillNoLimit(_, _, _)
CacheFillNoLimit(cache, ids, downloaded_ids) ==
    IF ids = <<>> THEN cache
    ELSE LET id == Head(ids)
             put == [x \in DOMAIN cache \cup {id} |->
                        IF x = id THEN id \in downloaded_ids ELSE cache[x]] IN
         CacheFillNoLimit(put, Tail(ids), downloaded_ids)

\* the loop over uncached_ids: an entry is added while the cache is below its limit
RECURSIVE CacheFill(_, _, _)
CacheFill(cache, ids, downloaded_ids) ==
    IF ids = <<>> THEN cache
    ELSE LET id == Head(ids)
             put == [x \in DOMAIN cache \cup {id} |->
                        IF x = id THEN id \in downloaded_ids ELSE cache[x]] IN
         CacheFill(IF Cardinality(DOMAIN cache) < cache_size_limit THEN put ELSE cache,
                   Tail(ids), downloaded_ids)

\* are_filings_downloaded_batch: cached ids are answered from the cache, the
\* others by one SELECT ... WHERE filing_id IN (...), and are then cached
are_filings_downloaded_batch(d, cache, filing_ids) ==
    LET uncached_ids == SelectSeq(filing_ids, LAMBDA id : id \notin DOMAIN cache)
        downloaded_ids == StoredIds(d) \cap Range(uncached_ids) IN
    [results |-> [id \in Range(filing_ids) |->
                     IF id \in DOMAIN cache THEN cache[id] ELSE id \in downloaded_ids],
     cache |-> CacheFill(cache, uncached_ids, downloaded_ids)]

\* batch_check_downloaded: SELECT filing_id FROM filings WHERE filing_id IN (...)
batch_check_downloaded(d, filing_ids) == StoredIds(d) \cap Range(filing_ids)

\* one SECDatabase object is used for adds, deletes and batch checks
CacheAdd ==
    \E f \in Filings, fault \in {"none", "storage_error"} :
        /\ db' = add_filing(db, FilingData(FilingCik(f), FilingAcc(f), FilingForm(f), 1),
                            fault).db
        /\ batch' = NoBatch
        /\ UNCHANGED <<last, downloaded_cache>>

CacheDelete ==
    \E f \in Filings :
        /\ db' = delete_filing_record(db, FilingCik(f), FilingAcc(f)).db
        /\ batch' = NoBatch
        /\ UNCHANGED <<last, downloaded_cache>>

BatchCheckCached ==
    \E ids \in BatchInputs :
        LET res == are_filings_downloaded_batch(db, downloaded_cache, ids) IN
        /\ downloaded_cache' = res.cache
        /\ batch' = [op |-> "cached", ids |-> ids,
                     present |-> {id \in Range(ids) : res.results[id]}]
        /\ UNCHANGED <<db, last>>

BatchCheck ==
    \E ids \in BatchInputs :
        /\ batch' = [op |-> "uncached", ids |-> ids,
                     present |-> batch_check_downloaded(db, ids)]
        /\ UNCHANGED <<db, last, downloaded_cache>>

(***************************************************************************)
(* SafeRateLimiter.  Tokens are counted in units of 1/Scale token and time *)
(* in ticks of 1/(refill_rate * Scale) second, so that one tick refills    *)
(* one unit: elapsed * refill_rate tokens is that many units as ticks have *)
(* passed since last_refill, and (1 - tokens) / refill_rate seconds is     *)
(* (Scale - tokens) ticks.  Times are kept relative to now: since_refill   *)
(* is time.time() - last_refill, nap[t] is what is left of t's sleep.      *)
(***************************************************************************)
Threads == 1..NThreads

Min(a, b) == IF a < b THEN a ELSE b

Max(a, b) == IF a > b THEN a ELSE b

NoLimiter == [built |-> FALSE, capacity |-> 0, tokens |-> 0, since_refill |-> 0,
              lock |-> 0]

NoHist == [calls |-> 0, returns |-> 0, since |-> 0, lastReturn |-> 0,
           waited |-> 0, lastWait |-> 0]

\* the longest time since a caller's first call that is told apart
SinceCap == MaxCalls * Scale

\* the longest time a call is kept waiting by time.sleep that is told apart:
\* one tick more than 1 / refill_rate seconds
WaitCap == Scale + 1

RLInit ==
    /\ rl = NoLimiter
    /\ rpc = [t \in Threads |-> "idle"]
    /\ nap = [t \in Threads |-> 0]
    /\ hist = [t \in Threads |-> NoHist]

\* __init__(capacity, refill_rate): no argument is validated
init_accepts(capacity) == TRUE

Construct ==
    /\ ~rl.built
    /\ \E c \in 0..MaxCapacity :
          /\ init_accepts(c)
          /\ rl' = [built |-> TRUE, capacity |-> c, tokens |-> c * Scale,
                    since_refill |-> 0, lock |-> 0]
    /\ UNCHANGED <<rpc, nap, hist, timed>>

\* caller t cannot go on before a time.sleep has returned: its own, or that of
\* the caller holding the lock it waits for
Blocked(t) ==
    \/ rpc[t] = "sleep" /\ nap[t] > 0
    \/ /\ rpc[t] = "lock"
       /\ rl.lock \in Threads
       /\ rpc[rl.lock] = "sleep" /\ nap[rl.lock] > 0

\* one tick passes.  More than capacity * Scale ticks since last_refill refill
\* no more than capacity * Scale ticks do, so since_refill stops there
Tick ==
    /\ rl' = [rl EXCEPT !.since_refill = Min(@ + 1, rl.capacity * Scale)]
    /\ nap' = [t \in Threads |-> Max(nap[t] - 1, 0)]
    /\ hist' = [t \in Threads |->
                   IF hist[t].calls > 0
                   THEN [hist[t] EXCEPT !.since = Min(@ + 1, SinceCap),
                                        !.waited = IF Blocked(t)
                                                   THEN Min(@ + 1, WaitCap)
                                                   ELSE @]
                   ELSE hist[t]]
    /\ UNCHANGED <<rpc, timed>>

\* a caller enters acquire() and waits for self.lock; a timed caller makes
\* MaxCalls calls
Call(t) ==
    /\ rl.built
    /\ rpc[t] = "idle"
    /\ timed => hist[t].calls < MaxCalls
    /\ rpc' = [rpc EXCEPT ![t] = "lock"]
    /\ hist' = IF timed THEN [hist EXCEPT ![t].calls = @ + 1, ![t].waited = 0]
               ELSE hist
    /\ UNCHANGED <<rl, nap, timed>>

\* a faulty lock: the with block is entered while another caller is inside
LockNoWait(t) ==
    /\ rpc[t] = "lock"
    /\ rl' = [rl EXCEPT !.lock = t]
    /\ rpc' = [rpc EXCEPT ![t] = "refill"]
    /\ UNCHANGED <<nap, hist, timed>>

\* with self.lock:
Lock(t) ==
    /\ rpc[t] = "lock"
    /\ rl.lock = 0
    /\ rl' = [rl EXCEPT !.lock = t]
    /\ rpc' = [rpc EXCEPT ![t] = "refill"]
    /\ UNCHANGED <<nap, hist, timed>>

\* a refill that forgets the cap
RefilledNoCap(capacity, tokens, elapsed) == tokens + elapsed

\* tokens = min(capacity, tokens + (now - last_refill) * refill_rate)
refilled(capacity, tokens, elapsed) == Min(capacity * Scale, tokens + elapsed)

\* now = time.time(); refill; last_refill = now
Refill(t) ==
    /\ rpc[t] = "refill"
    /\ rl' = [rl EXCEPT !.tokens = refilled(rl.capacity, rl.tokens, rl.since_refill),
                        !.since_refill = 0]
    /\ rpc' = [rpc EXCEPT ![t] = "test"]
    /\ UNCHANGED <<nap, hist, timed>>

\* return True
Returned(h) ==
    IF timed THEN [h EXCEPT !.returns = @ + 1, !.lastReturn = h.since,
                            !.lastWait = h.waited, !.waited = 0]
    ELSE h

\* wait_time = (1 - self.tokens) / self.refill_rate
wait_time(tokens) == Scale - tokens

\* if self.tokens >= 1: consume and return True, else start to sleep
Test(t) ==
    /\ rpc[t] = "test"
    /\ IF rl.tokens >= Scale
       THEN /\ rl' = [rl EXCEPT !.tokens = @ - Scale, !.lock = 0]
            /\ rpc' = [rpc EXCEPT ![t] = "idle"]
            /\ hist' = [hist EXCEPT ![t] = Returned(@)]
            /\ UNCHANGED nap
       ELSE /\ nap' = [nap EXCEPT ![t] = wait_time(rl.tokens)]
            /\ rpc' = [rpc EXCEPT ![t] = "sleep"]
            /\ UNCHANGED <<rl, hist>>
    /\ UNCHANGED timed

\* a faulty wake-up: the caller returns without leaving the with block
WakeKeepsLock(t) ==
    /\ rpc[t] = "sleep"
    /\ nap[t] = 0
    /\ rl' = [rl EXCEPT !.tokens = 0]
    /\ rpc' = [rpc EXCEPT ![t] = "idle"]
    /\ hist' = [hist EXCEPT ![t] = Returned(@)]
    /\ UNCHANGED <<nap, timed>>

\* time.sleep returned: self.tokens = 0; return True (last_refill is not touched)
Wake(t) ==
    /\ rpc[t] = "sleep"
    /\ nap[t] = 0
    /\ rl' = [rl EXCEPT !.tokens = 0, !.lock = 0]
    /\ rpc' = [rpc EXCEPT ![t] = "idle"]
    /\ hist' = [hist EXCEPT ![t] = Returned(@)]
    /\ UNCHANGED <<nap, timed>>

(***************************************************************************)
(* safe_request: what the session.get of one outbound request can do, and  *)
(* what safe_request makes of it.                                          *)
(***************************************************************************)
Events == {"200", "404", "400", "500", "429", "403", "timeout",
           "connection_error", "keyboard_interrupt", "exception"}

ExitPcs == {"exit_429", "exit_403", "exit_connection", "exit_interrupt",
            "exit_unexpected"}

Resp(code) == [exit |-> "", status |-> code]

Exit(why) == [exit |-> why, status |-> 0]

\* safe_request that hands a 429 back to its caller like any other error status
SafeRequestReturns429(ev) ==
    CASE ev = "429" -> Resp(429)
      [] ev = "403" -> Exit("exit_403")
      [] ev = "404" -> Resp(404)
      [] ev = "500" -> Resp(500)
      [] ev = "400" -> Resp(400)
      [] ev = "200" -> Resp(200)
      [] ev = "keyboard_interrupt" -> Exit("exit_interrupt")
      [] ev = "timeout" -> Resp(408)
      [] ev = "connection_error" -> Exit("exit_connection")
      [] OTHER -> Exit("exit_unexpected")

safe_request(ev) ==
    CASE ev = "429" -> Exit("exit_429")
      [] ev = "403" -> Exit("exit_403")
      [] ev = "404" -> Resp(404)
      [] ev = "500" -> Resp(500)
      [] ev = "400" -> Resp(400)
      [] ev = "200" -> Resp(200)
      [] ev = "keyboard_interrupt" -> Exit("exit_interrupt")
      [] ev = "timeout" -> Resp(408)
      [] ev = "connection_error" -> Exit("exit_connection")
      [] OTHER -> Exit("exit_unexpected")

(***************************************************************************)
(* Fiscal metadata.  A Python string is the sequence of its characters;    *)
(* the submission text is what each of the six patterns of                 *)
(* extract_fiscal_info_from_txt captures in it, PyNone when re.search      *)
(* finds no match.                                                         *)
(***************************************************************************)
\* None, as a value that compares with strings
PyNone == <<"None">>

\* a dict key that was never assigned
Absent == <<"absent">>

\* int() of a digit
Val(c) == CHOOSE n \in 0..9 : Str(n) = c

IsDigits(s) == \A i \in DOMAIN s : IsDigit(s[i])

RECURSIVE ToInt(_)
\* int() of a string of digits
ToInt(s) == IF s = <<>> THEN 0 ELSE 10 * ToInt(SubSeq(s, 1, Len(s) - 1)) + Val(s[Len(s)])

\* a number in two and in four digits
D2(n) == <<Str((n \div 10) % 10), Str(n % 10)>>

D4(n) == D2(n \div 100) \o D2(n % 100)

\* the eight digits of a period of report or a filing date
Raw(y, m, d) == D4(y) \o D2(m) \o D2(d)

\* f"{raw_date[:4]}-{raw_date[4:6]}-{raw_date[6:]}"
Iso(raw) == SubSeq(raw, 1, 4) \o <<"-">> \o SubSeq(raw, 5, 6) \o <<"-">> \o SubSeq(raw, 7, Len(raw))

\* the month abbreviations of %b
MonthNames == <<"Jan", "Feb", "Mar", "Apr", "May", "Jun",
                "Jul", "Aug", "Sep", "Oct", "Nov", "Dec">>

\* a date in the format '%b %d, %Y'; the month abbreviation is one element
Bdy(y, m, d) == <<MonthNames[m], " ">> \o D2(d) \o <<",", " ">> \o D4(y)

IsLeap(y) == (y % 4 = 0 /\ y % 100 # 0) \/ y % 400 = 0

DaysIn(y, m) ==
    IF m = 2 THEN (IF IsLeap(y) THEN 29 ELSE 28)
    ELSE IF m \in {4, 6, 9, 11} THEN 30 ELSE 31

\* a date of the calendar
ValidDate(y, m, d) == y \in 1..9999 /\ m \in 1..12 /\ d \in 1..DaysIn(y, m)

ValueError == [error |-> TRUE, month |-> 0, day |-> 0]

Date(y, m, d) ==
    IF ValidDate(y, m, d) THEN [error |-> FALSE, month |-> m, day |-> d] ELSE ValueError

\* datetime.strptime(date_str, '%Y-%m-%d')
strptime_Ymd(s) ==
    IF /\ Len(s) = 10
       /\ s[5] = "-" /\ s[8] = "-"
       /\ IsDigits(SubSeq(s, 1, 4)) /\ IsDigits(SubSeq(s, 6, 7)) /\ IsDigits(SubSeq(s, 9, 10))
    THEN Date(ToInt(SubSeq(s, 1, 4)), ToInt(SubSeq(s, 6, 7)), ToInt(SubSeq(s, 9, 10)))
    ELSE ValueError

\* datetime.strptime(date_str, '%b %d, %Y')
strptime_bdY(s) ==
    IF /\ Len(s) = 10
       /\ \E m \in DOMAIN MonthNames : s[1] = MonthNames[m]
       /\ s[2] = " " /\ s[5] = "," /\ s[6] = " "
       /\ IsDigits(SubSeq(s, 3, 4)) /\ IsDigits(SubSeq(s, 7, 10))
    THEN Date(ToInt(SubSeq(s, 7, 10)),
              CHOOSE m \in DOMAIN MonthNames : s[1] = MonthNames[m],
              ToInt(SubSeq(s, 3, 4)))
    ELSE ValueError

Q1 == <<"Q", "1">>

Q2 == <<"Q", "2">>

Q3 == <<"Q", "3">>

Q4 == <<"Q", "4">>

\* the quarter of the calendar: three months each
CalendarQuarter(month, day) ==
    IF month <= 3 THEN Q1 ELSE IF month <= 6 THEN Q2 ELSE IF month <= 9 THEN Q3 ELSE Q4

\* a quarter-end rule that counts the last days of the month to the next quarter
QuarterEndRollsOver(month, day) ==
    IF month = 3 /\ day >= 28 THEN Q2
    ELSE IF month = 6 /\ day >= 28 THEN Q3
    ELSE IF month = 9 /\ day >= 28 THEN Q4
    ELSE IF month = 12 /\ day >= 28 THEN Q1
    ELSE IF month <= 4 THEN Q1
    ELSE IF month <= 7 THEN Q2
    ELSE IF month <= 10 THEN Q3
    ELSE Q4

\* lines 314-332: the quarter of a parsed date
QuarterOf(month, day) ==
    IF month = 3 /\ day >= 28 THEN Q1
    ELSE IF month = 6 /\ day >= 28 THEN Q2
    ELSE IF month = 9 /\ day >= 28 THEN Q3
    ELSE IF month = 12 /\ day >= 28 THEN Q4
    ELSE IF month <= 4 THEN Q1
    ELSE IF month <= 7 THEN Q2
    ELSE IF month <= 10 THEN Q3
    ELSE Q4

\* determine_QTR_from_date that takes the quarter of the calendar
DetermineCalendarQuarter(date_str) ==
    IF date_str \in {<<>>, PyNone, <<"N", "o", "n", "e">>} THEN Q1
    ELSE LET a == strptime_Ymd(date_str)
             b == IF a.error THEN strptime_bdY(date_str) ELSE a IN
         IF b.error THEN Q1 ELSE CalendarQuarter(b.month, b.day)

\* determine_QTR_from_date: "Q1" for no date and for a date neither format parses
determine_QTR_from_date(date_str) ==
    IF date_str \in {<<>>, PyNone, <<"N", "o", "n", "e">>} THEN Q1
    ELSE LET a == strptime_Ymd(date_str)
             b == IF a.error THEN strptime_bdY(date_str) ELSE a IN
         IF b.error THEN Q1 ELSE QuarterOf(b.month, b.day)

Years == {2023, 2024}

Months == 0..13

Days == 0..32

\* the dates determine_QTR_from_date is called with
DateStrs ==
    {Iso(Raw(y, m, d)) : y \in Years, m \in Months, d \in Days}
    \cup {Bdy(2023, m, d) : m \in {3, 4}, d \in {27, 28, 31}}
    \cup {<<>>, PyNone, <<"N", "o", "n", "e">>, <<"2", "0", "2", "3">>}

CallDetermineQtr ==
    /\ call = NoCall
    /\ \E date_str \in DateStrs :
          call' = [fn |-> "determine_QTR_from_date", arg |-> date_str,
                   ret |-> determine_QTR_from_date(date_str)]

\* str.upper() on the letters of a form type
Upper(s) ==
    [i \in DOMAIN s |-> CASE s[i] = "q" -> "Q" [] s[i] = "k" -> "K"
                          [] s[i] = "a" -> "A" [] OTHER -> s[i]]

F10K == <<"1", "0", "-", "K">>

F10KA == <<"1", "0", "-", "K", "/", "A">>

F10Q == <<"1", "0", "-", "Q">>

F10QA == <<"1", "0", "-", "Q", "/", "A">>

\* what the patterns capture in a submission text
Contents ==
    [period_of_report : {PyNone} \cup {Raw(2023, m, d) : m \in {3, 4, 6, 13}, d \in {27, 31}},
     fiscal_period : {PyNone, Q2, Q4},
     fiscal_year : {PyNone, D4(2022)},
     submission_type : {PyNone, F10K, F10KA, F10Q, F10QA, <<"1", "0", "-", "q">>,
                        <<"8", "-", "K">>},
     company_name : {PyNone, <<"A", "C", "M", "E">>},
     date_filed : {PyNone, Raw(2023, 5, 10)}]

\* the text in which no pattern matches
NoContent ==
    [period_of_report |-> PyNone, fiscal_period |-> PyNone, fiscal_year |-> PyNone,
     submission_type |-> PyNone, company_name |-> PyNone, date_filed |-> PyNone]

\* the dict of lines 339-346; the keys below the line are assigned later
InitialFiscalInfo ==
    [period_end_date |-> PyNone, fiscal_year_end |-> PyNone, fiscal_year |-> PyNone,
     fiscal_period |-> PyNone, form_type |-> PyNone, company_name |-> PyNone,
     period_end_year |-> Absent, date_filed_year |-> Absent, date_filed |-> Absent]

\* lines 352-387: the fields of the dict after the patterns were applied
Extract(content) ==
    LET form_type == IF content.submission_type # PyNone
                     THEN Upper(content.submission_type) ELSE PyNone
        raw == content.period_of_report
        filed == content.date_filed
        period_end_date == IF raw # PyNone THEN Iso(raw) ELSE PyNone
        fiscal_year == IF content.fiscal_year # PyNone THEN content.fiscal_year
                       ELSE IF raw # PyNone THEN SubSeq(raw, 1, 4) ELSE PyNone
        fiscal_period ==
            IF form_type \in {F10Q, F10QA}
            THEN IF content.fiscal_period # PyNone THEN content.fiscal_period
                 ELSE IF period_end_date # PyNone THEN determine_QTR_from_date(period_end_date)
                 ELSE PyNone
            ELSE IF form_type \in {F10K, F10KA} THEN <<"F", "Y">>
            ELSE PyNone IN
    [period_end_date |-> period_end_date,
     fiscal_year_end |-> IF raw # PyNone
                         THEN SubSeq(raw, 5, 6) \o <<"-">> \o SubSeq(raw, 7, Len(raw))
                         ELSE PyNone,
     fiscal_year |-> fiscal_year,
     fiscal_period |-> fiscal_period,
     form_type |-> form_type,
     company_name |-> content.company_name,
     period_end_year |-> IF raw # PyNone THEN SubSeq(raw, 1, 4) ELSE Absent,
     date_filed_year |-> IF filed # PyNone THEN SubSeq(filed, 1, 4) ELSE Absent,
     date_filed |-> IF filed # PyNone THEN Iso(filed) ELSE Absent]

\* extract_fiscal_info_from_txt that takes the tagged period of a 10-K as well
ExtractTagBeforeForm(ev, content) ==
    LET r == safe_request(ev) IN
    IF r.exit # "" THEN [raised |-> TRUE, fiscal_info |-> InitialFiscalInfo]
    ELSE IF r.status >= 400 THEN [raised |-> FALSE, fiscal_info |-> InitialFiscalInfo]
    ELSE LET info == Extract(content) IN
         [raised |-> FALSE,
          fiscal_info |-> IF content.fiscal_period # PyNone /\ info.form_type # PyNone
                          THEN [info EXCEPT !.fiscal_period = content.fiscal_period]
                          ELSE info]

\* extract_fiscal_info_from_txt, lines 338-394.  SystemExit of safe_request
\* is no Exception and leaves the function; raise_for_status raises for a
\* status of 400 and above, which the except clause turns into the initial dict
extract_fiscal_info_from_txt(ev, content) ==
    LET r == safe_request(ev) IN
    IF r.exit # "" THEN [raised |-> TRUE, fiscal_info |-> InitialFiscalInfo]
    ELSE IF r.status >= 400 THEN [raised |-> FALSE, fiscal_info |-> InitialFiscalInfo]
    ELSE [raised |-> FALSE, fiscal_info |-> Extract(content)]

CallExtractFiscal ==
    /\ call = NoCall
    /\ \E ev \in Events, content \in Contents :
          /\ ev # "200" => content = NoContent
          /\ call' = [fn |-> "extract_fiscal_info_from_txt",
                      arg |-> [ev |-> ev, content |-> content],
                      ret |-> extract_fiscal_info_from_txt(ev, content)]

(***************************************************************************)
(* create_filename and its call in download_filing.                        *)
(***************************************************************************)
\* str.replace(old, new) for a one-character old and new
Replace(s, old, new) == [i \in DOMAIN s |-> IF s[i] = old THEN new ELSE s[i]]

\* str.replace(old, '') for a one-character old
Remove(s, old) == SelectSeq(s, LAMBDA c : c # old)

\* the truth value of a string or None
Truthy(v) == v \notin {PyNone, Absent, <<>>}

Raised(why) == [raised |-> TRUE, why |-> why, name |-> <<>>]

Named(clean_date, company_name) ==
    [raised |-> FALSE, why |-> "", name |-> clean_date \o <<"_">> \o company_name]

\* estimate_10K_fiscal_year: strptime(date_filed, "%Y%m%d"), then the year as
\* an int, the year before for the months up to May
estimate_10K_fiscal_year(date_filed) ==
    LET d == IF Len(date_filed) = 8 /\ IsDigits(date_filed)
             THEN Date(ToInt(SubSeq(date_filed, 1, 4)), ToInt(SubSeq(date_filed, 5, 6)),
                       ToInt(SubSeq(date_filed, 7, 8)))
             ELSE ValueError IN
    IF d.error THEN [error |-> TRUE, year |-> 0]
    ELSE [error |-> FALSE,
          year |-> IF d.month <= 5 THEN ToInt(SubSeq(date_filed, 1, 4)) - 1
                   ELSE ToInt(SubSeq(date_filed, 1, 4))]

\* filename_date = report_date if report_date and report_date != 'None' else filing_date
FilenameDate(report_date, filing_date) ==
    IF Truthy(report_date) /\ report_date # <<"N", "o", "n", "e">>
    THEN report_date ELSE filing_date

\* the date-based name: filename_date.replace('-', '').replace('/', '_');
\* None has no replace
DateName(report_date, filing_date, company_name) ==
    LET filename_date == FilenameDate(report_date, filing_date) IN
    IF filename_date = PyNone THEN Raised("AttributeError")
    ELSE Named(Replace(Remove(filename_date, "-"), "/", "_"), company_name)

\* create_filename, lines 144-174.  In the 10-K branch without fiscal year
\* estimate_10K_fiscal_year returns an int, which has no replace
create_filename(fiscal_info, report_date, filing_date, company_name) ==
    LET form == fiscal_info.form_type
        clean_form == IF Truthy(form) THEN Remove(Replace(form, "/", "_"), " ")
                      ELSE <<"U", "N", "K", "N", "O", "W", "N">>
        company == Replace(Replace(company_name, "/", "_"), "\\", "_") IN
    IF form \in {F10Q, F10QA}
    THEN IF Truthy(fiscal_info.fiscal_year) /\ Truthy(fiscal_info.fiscal_period)
         THEN Named(Replace(fiscal_info.fiscal_year \o <<"_">> \o clean_form \o <<"_">>
                            \o fiscal_info.fiscal_period, "/", "_"), company)
         ELSE DateName(report_date, filing_date, company)
    ELSE IF form \in {F10K, F10KA}
    THEN IF Truthy(fiscal_info.fiscal_year)
         THEN Named(Replace(Remove(fiscal_info.fiscal_year, "-"), "/", "_")
                    \o <<"_">> \o clean_form, company)
         ELSE LET filename_date == FilenameDate(report_date, filing_date) IN
              IF filename_date = PyNone THEN Raised("AttributeError")
              ELSE IF estimate_10K_fiscal_year(Remove(filename_date, "-")).error
                   THEN Raised("ValueError")
                   ELSE Raised("AttributeError")
    ELSE DateName(report_date, filing_date, company)

\* download_filing, lines 416-422: the company name of the text if it has one,
\* and fiscal_info['period_end_year'], fiscal_info['date_filed_year'] as the
\* report date and the filing date
FilenameInDownloadFiling(fiscal_info, company_name) ==
    IF fiscal_info.period_end_year = Absent \/ fiscal_info.date_filed_year = Absent
    THEN Raised("KeyError")
    ELSE create_filename(fiscal_info, fiscal_info.period_end_year,
                         fiscal_info.date_filed_year,
                         IF Truthy(fiscal_info.company_name)
                         THEN fiscal_info.company_name ELSE company_name)

\* the values create_filename is handed as report_date and filing_date
NameDates == {PyNone, D4(2023), Iso(Raw(2023, 12, 31)), Iso(Raw(2024, 3, 31))}

CallCreateFilename ==
    /\ call = NoCall
    /\ \E content \in Contents, caller \in {"download_filing", "direct"},
          report_date \in NameDates, filing_date \in NameDates :
          LET fiscal_info == extract_fiscal_info_from_txt("200", content).fiscal_info
              company_name == <<"A", "/", "B">> IN
          /\ caller = "download_filing" => (report_date = PyNone /\ filing_date = PyNone)
          /\ call' = [fn |-> "create_filename",
                      arg |-> [fiscal_info |-> fiscal_info, caller |-> caller,
                               report_date |-> IF caller = "direct" THEN report_date
                                               ELSE fiscal_info.period_end_year,
                               filing_date |-> IF caller = "direct" THEN filing_date
                                               ELSE fiscal_info.date_filed_year,
                               company_name |-> company_name],
                      ret |-> IF caller = "direct"
                              THEN create_filename(fiscal_info, report_date,
                                                   filing_date, company_name)
                              ELSE FilenameInDownloadFiling(fiscal_info, company_name)]

(***************************************************************************)
(* The archive.  The year range is the sequence of its quarters; quarter   *)
(* q has one index file, which lists the filings of that quarter in order. *)
(***************************************************************************)
Quarters == 1..NQuarters

FilingQuarter(f) == ((f - 1) \div 2) + 1

RECURSIVE ListingFrom(_, _)
ListingFrom(qq, f) ==
    IF f > NFilings THEN <<>>
    ELSE (IF FilingQuarter(f) = qq THEN <<f>> ELSE <<>>) \o ListingFrom(qq, f + 1)

Listing(qq) == ListingFrom(qq, 1)

\* keys a filing index page can add to the URL map, in page order
Shapes == {<<>>, <<"10-K">>, <<"10-K", "EX-31">>, <<"10-Q", "xbrl_instance">>}

\* required_urls: financial_report_xlsx first, complete_txt when found or at the end
UrlMap(shape) == <<"financial_report_xlsx">> \o shape \o <<"complete_txt">>

\* None, which download_filing tests with `if not urls`
NoUrls == <<>>

\* required_urls that answers a failed fetch with the map of the except branch
RequiredUrlsDegraded(status, shape, parses) ==
    IF status = 200 /\ parses THEN UrlMap(shape) ELSE UrlMap(<<>>)

\* required_urls: None unless the index page came with status 200; the except
\* branch, entered when the page cannot be parsed, keeps the spreadsheet URL
\* and sets complete_txt to the input URL
required_urls(status, shape, parses) ==
    IF status # 200 THEN NoUrls
    ELSE IF parses THEN UrlMap(shape) ELSE UrlMap(<<>>)

\* 'xbrl' in key
IsXbrlKey(k) == k \in {"xbrl_instance"}

\* 'EX' in key.upper()
IsExKey(k) == k \in {"EX-31"}

\* any(k in urls for k in ['10-K', '10-Q', '10-K/A', '10-Q/A'])
IsHtmlBundle(urls) == Range(urls) \cap FORM_TYPES # {}

\* the keys the loop of the HTML branch does not skip with continue
Selected(k, form_type) == k = form_type \/ IsXbrlKey(k) \/ IsExKey(k)

\* the primary document and the exhibits go to target_dir2, XBRL files to target_dir
UsesDir2(k, form_type) == k = form_type \/ (~IsXbrlKey(k) /\ IsExKey(k))

RECURSIVE SelectKeys(_, _)
SelectKeys(urls, form_type) ==
    IF urls = <<>> THEN <<>>
    ELSE (IF Selected(Head(urls), form_type) THEN <<Head(urls)>> ELSE <<>>)
         \o SelectKeys(Tail(urls), form_type)

\* the requests download_filing plans between the metadata and the spreadsheet
Planned(urls, form_type) ==
    IF IsHtmlBundle(urls) THEN SelectKeys(urls, form_type) ELSE <<"complete_txt">>

\* a faulty commit: a record whatever was downloaded
CommitAlways(downloaded) == TRUE

\* if results['downloaded_files']: ... self.database.add_filing(filing_data)
commits(downloaded) == downloaded # {}

(***************************************************************************)
(* The driver and download_filing.                                         *)
(***************************************************************************)
ZeroStats == [total_found |-> 0, downloaded |-> 0, skipped |-> 0, failed |-> 0,
              errors |-> 0]

NoVisit == [f |-> 0, inDb |-> FALSE, seen |-> FALSE, checked |-> FALSE, reqs |-> <<>>,
            urls |-> <<>>, todo |-> <<>>, downloaded |-> {}, selFailed |-> FALSE,
            added |-> FALSE, count |-> "none", done |-> FALSE]

\* the limiter object behind self.rate_limiter of the downloader and of the driver
DownloaderLimiter == "downloader.rate_limiter"

DriverLimiter == IF variant = "Copy" THEN DownloaderLimiter ELSE "driver.rate_limiter"

OrchParked ==
    /\ variant = "Copy"
    /\ run = 0
    /\ pc = "off"
    /\ q = 0
    /\ cur = 0
    /\ remoteIdx = [f \in Filings |-> 0]
    /\ dirs2 = {}
    /\ stats = ZeroStats
    /\ overall = ZeroStats
    /\ visit = NoVisit
    /\ prevDone = FALSE
    /\ lastEv = "none"
    /\ acquired = {}

Init ==
    /\ db = {}
    /\ variant \in {"Copy", "EDGAR"}
    /\ run = 0
    /\ pc = "off"
    /\ q = 0
    /\ cur = 0
    /\ remoteIdx = [f \in Filings |-> 0]
    /\ dirs2 = {}
    /\ stats = ZeroStats
    /\ overall = ZeroStats
    /\ visit = NoVisit
    /\ prevDone = FALSE
    /\ lastEv = "none"
    /\ acquired = {}
    /\ IdInit /\ last = NoOp /\ downloaded_cache = EmptyCache /\ batch = NoBatch
    /\ RLInit /\ timed = TRUE

CurFiling == Listing(q)[cur]

\* the loop of pure_parse_daily_index goes on to the next filing of the listing
Advance(v) ==
    /\ visit' = [v EXCEPT !.done = TRUE, !.urls = <<>>, !.todo = <<>>]
    /\ IF cur < Len(Listing(q))
       THEN /\ cur' = cur + 1
            /\ pc' = "filing"
       ELSE /\ cur' = cur
            /\ pc' = "qend"

\* a count that is kept for total_found only
CountedFoundOnly(st, what) ==
    IF what = "total_found" THEN [st EXCEPT ![what] = @ + 1] ELSE st

\* stats[what] += 1
Counted(st, what) == [st EXCEPT ![what] = @ + 1]

\* download_filing has returned (a dict of four keys, or None).  "EDGAR - Copy"
\* takes it as one value and counts the filing; "EDGAR" unpacks three values
\* from it (result, target_dir, target_dir2), which raises
Returns(v, st, what) ==
    IF variant = "Copy"
    THEN /\ stats' = Counted(st, what)
         /\ Advance([v EXCEPT !.count = what])
    ELSE /\ pc' = "crashed"
         /\ visit' = v
         /\ stats' = st
         /\ cur' = cur

\* the process is started: python daily_downloader_inspect.py
StartRun ==
    /\ pc \in {"off", "done", "crashed"} \cup ExitPcs
    /\ run < MaxRuns
    /\ run' = run + 1
    /\ prevDone' = (pc = "done")
    /\ q' = 1
    /\ cur' = 0
    /\ stats' = ZeroStats
    /\ overall' = ZeroStats
    /\ visit' = NoVisit
    /\ pc' = "quarter"
    /\ UNCHANGED <<db, variant, remoteIdx, dirs2>>
    /\ lastEv' = "none"
    /\ acquired' = {}

\* download_year_range: get_idx_link(year, quarter)
GetIdxLink ==
    /\ pc = "quarter"
    /\ q <= NQuarters
    /\ \E ev \in Events, links \in 0..1 :
          /\ lastEv' = ev
          /\ LET r == safe_request(ev) IN
             IF r.exit # ""
             THEN pc' = r.exit /\ UNCHANGED <<q, stats>>
             ELSE IF r.status = 200 /\ links > 0
                  THEN pc' = "idxfile" /\ stats' = ZeroStats /\ UNCHANGED q
                  ELSE pc' = "quarter" /\ q' = q + 1 /\ UNCHANGED stats
    /\ UNCHANGED <<db, variant, run, cur, remoteIdx, dirs2, overall, visit,
                   prevDone>>
    /\ acquired' = acquired \cup {DriverLimiter}

\* pure_parse_daily_single_index: an index file without an all-dash line
\* leaves data_start unbound
ParseIndexFile ==
    /\ pc = "idxfile"
    /\ \E ev \in Events, separator \in BOOLEAN :
          /\ lastEv' = ev
          /\ LET r == safe_request(ev) IN
             IF r.exit # ""
             THEN pc' = r.exit /\ UNCHANGED cur
             ELSE IF r.status # 200
                  THEN pc' = "qend" /\ UNCHANGED cur
                  ELSE IF ~separator
                       THEN pc' = "crashed" /\ UNCHANGED cur
                       ELSE IF Listing(q) = <<>>
                            THEN pc' = "qend" /\ UNCHANGED cur
                            ELSE pc' = "filing" /\ cur' = 1
    /\ UNCHANGED <<db, variant, run, q, remoteIdx, dirs2, stats, overall,
                   visit, prevDone>>
    /\ acquired' = acquired \cup {DriverLimiter}

\* the store holds a row for filing f (what the table says, whoever asks)
HasRow(d, f) ==
    \E r \in d : r.cik = FilingCik(f) /\ r.accession_number = FilingAcc(f)

\* seen: an earlier run got this filing's index page, or its 404, from the archive
Begin(f) == [NoVisit EXCEPT !.f = f, !.inDb = HasRow(db, f),
                           !.seen = remoteIdx[f] # 0]

Requested(v, what) == [v EXCEPT !.reqs = Append(@, what)]

\* the existence checks of the driver and of download_filing, one after the other;
\* a skipped result of download_filing has no downloaded_files
CheckAndEnter(v, st) ==
    LET f == v.f IN
    IF is_filing_downloaded(db, FilingCik(f), FilingAcc(f))
    THEN /\ stats' = Counted(st, "skipped")
         /\ Advance([v EXCEPT !.count = "skipped"])
    ELSE IF is_filing_downloaded(db, FilingCik(f), FilingAcc(f))
         THEN Returns(v, st, "failed")
         ELSE /\ stats' = st
              /\ visit' = [v EXCEPT !.checked = TRUE]
              /\ pc' = "index"
              /\ cur' = cur

\* "EDGAR - Copy" pure_parse_daily_index: count the filing, then check the store
ReachFilingCopy ==
    /\ pc = "filing"
    /\ variant = "Copy"
    /\ CheckAndEnter(Begin(CurFiling), Counted(stats, "total_found"))
    /\ UNCHANGED <<db, variant, run, q, remoteIdx, dirs2, overall,
                   prevDone>>
    /\ lastEv' = "none"
    /\ UNCHANGED acquired

\* "EDGAR" pure_parse_daily_index: fetch the filing text, then check the store
\* only when the fetch gave 200
ReachFilingEdgar ==
    /\ pc = "filing"
    /\ variant = "EDGAR"
    /\ \E ev \in Events :
          /\ lastEv' = ev
          /\ LET r == safe_request(ev)
                 v == Requested(Begin(CurFiling), "filing_txt") IN
             IF r.exit # ""
             THEN pc' = r.exit /\ visit' = v /\ UNCHANGED <<cur, stats>>
             ELSE IF r.status = 200
                  THEN CheckAndEnter(v, stats)
                  ELSE Advance(v) /\ UNCHANGED stats
    /\ UNCHANGED <<db, variant, run, q, remoteIdx, dirs2, overall,
                   prevDone>>
    /\ acquired' = acquired \cup {DriverLimiter}

\* download_filing: urls = self.required_urls(file_name); if not urls: return None
FetchIndex ==
    /\ pc = "index"
    /\ \E ev \in Events, shape \in Shapes, parses \in BOOLEAN :
          /\ lastEv' = ev
          /\ LET f == visit.f
                 r == safe_request(ev)
                 urls == required_urls(r.status, shape, parses)
                 v == Requested(visit, "index") IN
             /\ ev = "200" => remoteIdx[f] \in {0, 200}
             /\ ev = "404" => remoteIdx[f] \in {0, 404}
             /\ remoteIdx' = IF ev \in {"200", "404"}
                             THEN [remoteIdx EXCEPT ![f] = r.status] ELSE remoteIdx
             /\ IF r.exit # ""
                THEN pc' = r.exit /\ visit' = v /\ UNCHANGED <<cur, stats>>
                ELSE IF urls = NoUrls
                     THEN Returns(v, stats, "failed")
                     ELSE /\ visit' = [v EXCEPT !.urls = urls]
                          /\ pc' = "meta"
                          /\ UNCHANGED <<cur, stats>>
    /\ UNCHANGED <<db, variant, run, q, dirs2, overall, prevDone>>
    /\ acquired' = acquired \cup {DownloaderLimiter}

\* extract_fiscal_info_from_txt, then fiscal_info['period_end_year'] and
\* fiscal_info['date_filed_year'], which exist only when both headers matched
FetchMeta ==
    /\ pc = "meta"
    /\ \E ev \in Events, headers \in BOOLEAN :
          /\ lastEv' = ev
          /\ LET f == visit.f
                 r == safe_request(ev)
                 v == Requested(visit, "complete_txt")
                 todo == Planned(visit.urls, FilingForm(f)) IN
             IF r.exit # ""
             THEN pc' = r.exit /\ visit' = v
             ELSE IF r.status # 200 \/ ~headers
                  THEN pc' = "crashed" /\ visit' = v
                  ELSE /\ visit' = [v EXCEPT !.todo = todo]
                       /\ pc' = IF todo = <<>> THEN "xlsx" ELSE "docs"
    /\ UNCHANGED <<db, variant, run, q, cur, remoteIdx, dirs2, stats, overall,
                   prevDone>>
    /\ acquired' = acquired \cup {DownloaderLimiter}

\* one request of the HTML loop, or the request of the plain-text branch
FetchDoc ==
    /\ pc = "docs"
    /\ \E ev \in Events, writeOk \in BOOLEAN :
          /\ lastEv' = ev
          /\ LET f == visit.f
                 key == Head(visit.todo)
                 html == IsHtmlBundle(visit.urls)
                 r == safe_request(ev)
                 v == Requested(visit, key)
                 before == IF html /\ UsesDir2(key, FilingForm(f))
                           THEN dirs2 \cup {FilingCik(f)} ELSE dirs2
                 after == IF html THEN before ELSE dirs2 \cup {FilingCik(f)} IN
             IF r.exit # ""
             THEN pc' = r.exit /\ visit' = v /\ dirs2' = before
             ELSE /\ dirs2' = after
                  /\ IF r.status = 200 /\ writeOk
                     THEN visit' = [v EXCEPT !.downloaded = @ \cup {key},
                                             !.todo = Tail(@)]
                     ELSE visit' = [v EXCEPT !.selFailed = TRUE,
                                             !.todo = IF r.status = 200
                                                      THEN <<>> ELSE Tail(@)]
                  /\ pc' = IF visit'.todo = <<>> THEN "xlsx" ELSE "docs"
    /\ UNCHANGED <<db, variant, run, q, cur, remoteIdx, stats, overall,
                   prevDone>>
    /\ acquired' = acquired \cup {DownloaderLimiter}

\* the spreadsheet, then the commit and the count of the driver
FetchXlsx ==
    /\ pc = "xlsx"
    /\ \E ev \in Events, writeOk \in BOOLEAN, fault \in {"none", "storage_error"} :
          /\ lastEv' = ev
          /\ LET f == visit.f
                 key == "financial_report_xlsx"
                 r == safe_request(ev)
                 v == Requested(visit, key)
                 got == r.status = 200 /\ writeOk
                 dl == IF got THEN visit.downloaded \cup {key} ELSE visit.downloaded
                 res == add_filing(db, FilingData(FilingCik(f), FilingAcc(f),
                                                  FilingForm(f), Cardinality(dl)), fault) IN
             IF r.exit # ""
             THEN /\ pc' = r.exit /\ visit' = v
                  /\ UNCHANGED <<db, stats, cur>>
             ELSE IF commits(dl) /\ FilingCik(f) \notin dirs2
                     THEN \* target_dir2.iterdir() raises FileNotFoundError
                          /\ pc' = "crashed"
                          /\ visit' = [v EXCEPT !.downloaded = dl]
                          /\ UNCHANGED <<db, stats, cur>>
                     ELSE /\ db' = IF commits(dl) THEN res.db ELSE db
                          /\ Returns([v EXCEPT !.downloaded = dl,
                                               !.added = commits(dl) /\ res.ok],
                                     stats,
                                     IF dl # {} THEN "downloaded" ELSE "failed")
    /\ UNCHANGED <<variant, run, q, remoteIdx, dirs2, overall, prevDone>>
    /\ acquired' = acquired \cup {DownloaderLimiter}

AddStats(a, b) == [k \in DOMAIN a |-> a[k] + b[k]]

\* download_year_range after pure_parse_daily_index (no filing is in process any
\* more): the "EDGAR" statistics have no total_found, and
\* quarter_stats['total_found'] raises KeyError
QuarterEnd ==
    /\ pc = "qend"
    /\ IF variant = "Copy"
       THEN /\ overall' = AddStats(overall, stats)
            /\ q' = q + 1
            /\ pc' = "quarter"
            /\ visit' = NoVisit
       ELSE /\ pc' = "crashed"
            /\ UNCHANGED <<overall, q, visit>>
    /\ UNCHANGED <<db, variant, run, cur, remoteIdx, dirs2, stats, prevDone>>
    /\ lastEv' = "none"
    /\ UNCHANGED acquired

\* the year range is exhausted: the final summary is logged
FinishRun ==
    /\ pc = "quarter"
    /\ q > NQuarters
    /\ pc' = "done"
    /\ UNCHANGED <<db, variant, run, q, cur, remoteIdx, dirs2, stats, overall,
                   visit, prevDone>>
    /\ lastEv' = "none"
    /\ UNCHANGED acquired

Next ==
    /\ \/ StartRun
       \/ GetIdxLink
       \/ ParseIndexFile
       \/ ReachFilingCopy
       \/ ReachFilingEdgar
       \/ FetchIndex
       \/ FetchMeta
       \/ FetchDoc
       \/ FetchXlsx
       \/ QuarterEnd
       \/ FinishRun
    /\ UNCHANGED <<idVars, storeVars, rlVars>>

Spec == Init /\ [][Next]_vars

(***************************************************************************)
(* The loops of download_year_range and pure_parse_daily_index of          *)
(* "EDGAR - Copy": years, quarters, the index files of a quarter and the   *)
(* filings of an index file.  The listings are whatever the archive        *)
(* returns; loop.quarters, loop.idxDone and loop.filDone record what the   *)
(* loops have reached.                                                     *)
(***************************************************************************)
\* range(a, b)
PyRange(a, b) == [k \in 1..(b - a) |-> a + k - 1]

\* a for loop that takes the items from the end of the list
IterateReversed(list, k) == list[Len(list) - k + 1]

\* the item of the k-th iteration of `for item in list`
Iterate(list, k) == list[k]

\* lists without repetition of up to n of the items 1..n
Listings(n) ==
    {s \in {<<>>} \cup SeqsUpTo(1..n, n) : \A a, b \in DOMAIN s : a # b => s[a] # s[b]}

\* the years download_year_range is called with
RangeYears == 2024..2025

\* if year == 1994 and quarter in [1, 2]: continue;
\* if year == 2025 and quarter in [4]: continue
SkipsQuarter(year, quarter) ==
    (year = 1994 /\ quarter \in {1, 2}) \/ (year = 2025 /\ quarter \in {4})

LoopYears == PyRange(loop.start, loop.end + 1)

LoopQuarters == PyRange(1, 5)

\* __main__ calls download_year_range, one call after the other
CallYearRange ==
    /\ loop.pc \in {"idle", "done", "crashed"}
    /\ \E start_year \in RangeYears, end_year \in RangeYears :
          loop' = [NoLoop EXCEPT !.pc = "year", !.start = start_year,
                                 !.end = end_year, !.yk = 1]

\* for year in range(start_year, end_year + 1)
NextYear ==
    /\ loop.pc = "year"
    /\ loop' = IF loop.yk > Len(LoopYears)
               THEN [loop EXCEPT !.pc = "done"]
               ELSE [loop EXCEPT !.pc = "quarter", !.qk = 1,
                                 !.year = Iterate(LoopYears, loop.yk)]

\* for quarter in range(1, 5): the skipped quarters, then get_idx_link
EnterQuarter ==
    /\ loop.pc = "quarter"
    /\ IF loop.qk > Len(LoopQuarters)
       THEN loop' = [loop EXCEPT !.pc = "year", !.yk = @ + 1]
       ELSE LET quarter == Iterate(LoopQuarters, loop.qk) IN
            IF SkipsQuarter(loop.year, quarter)
            THEN loop' = [loop EXCEPT !.qk = @ + 1]
            ELSE \E idx_links \in Listings(MaxLinks), fatal \in BOOLEAN :
                    LET reached == [loop EXCEPT
                                       !.quarters = Append(@, <<loop.year, quarter>>)] IN
                    loop' = IF fatal THEN [reached EXCEPT !.pc = "crashed"]
                            ELSE IF idx_links = <<>>
                            THEN [reached EXCEPT !.qk = @ + 1]
                            ELSE [reached EXCEPT !.pc = "index", !.links = idx_links,
                                                 !.ik = 1, !.idxDone = <<>>]

\* for idx_url in all_idx_url: pure_parse_daily_single_index
ParseNextIndex ==
    /\ loop.pc = "index"
    /\ IF loop.ik > Len(loop.links)
       THEN loop' = [loop EXCEPT !.pc = "quarter", !.qk = @ + 1]
       ELSE \E filings \in Listings(MaxListed), raises \in BOOLEAN :
               LET reached == [loop EXCEPT
                                  !.idxDone = Append(@, Iterate(loop.links, loop.ik))] IN
               loop' = IF raises THEN [reached EXCEPT !.pc = "crashed"]
                       ELSE [reached EXCEPT !.pc = "filing", !.filings = filings,
                                            !.fk = 1, !.filDone = <<>>]

\* for filing in filings: skipped when the store has it, else download_filing
ReachNextFiling ==
    /\ loop.pc = "filing"
    /\ IF loop.fk > Len(loop.filings)
       THEN loop' = [loop EXCEPT !.pc = "index", !.ik = @ + 1]
       ELSE \E in_db \in BOOLEAN :
               LET reached == [loop EXCEPT
                                  !.filDone = Append(@, Iterate(loop.filings, loop.fk))] IN
               loop' = IF in_db THEN [reached EXCEPT !.fk = @ + 1]
                       ELSE [reached EXCEPT !.pc = "download"]

\* download_filing returns, or an exception or SystemExit leaves it
FilingReturns ==
    /\ loop.pc = "download"
    /\ \E raises \in BOOLEAN :
          loop' = IF raises THEN [loop EXCEPT !.pc = "crashed"]
                  ELSE [loop EXCEPT !.pc = "filing", !.fk = @ + 1]

(***************************************************************************)
(* run_with_retry.py: the script is run as a child process until it exits  *)
(* with status 0.  retry.runs records how each child ended.                *)
(***************************************************************************)
\* how a run of daily_downloader_inspect.py can end: the year range is done,
\* a SystemExit of safe_request, an uncaught exception
ChildExits == {"done", "crashed"} \cup ExitPcs

\* the exit status of the child: sys.exit with a message and a traceback both
\* give status 1
ExitStatus(exit) == IF exit = "done" THEN 0 ELSE 1

ScriptNames == {"daily_downloader_inspect.py", "429 ERROR.py"}

\* str(e) of CalledProcessError: "Command '['python', script_name]' returned
\* non-zero exit status N."; the output of the child is not part of it
ErrOutput(script_name, exit) == [cmd |-> script_name, status |-> ExitStatus(exit)]

\* "429 ERROR" in err_output
Has429Error(err_output) == err_output.cmd = "429 ERROR.py"

\* a loop that does not count the failed attempt
AttemptNotCounted(attempt) == attempt

\* attempt += 1
NextAttempt(attempt) == attempt + 1

\* run_with_retry(script_name, max_retries, wait_time)
CallRetry ==
    /\ retry.pc = "idle"
    /\ \E script_name \in ScriptNames, max_retries \in 0..MaxRetries :
          retry' = [NoRetry EXCEPT !.pc = "loop", !.script_name = script_name,
                                   !.max_retries = max_retries]

\* while attempt < max_retries: subprocess.run(..., check=True)
RunScript ==
    /\ retry.pc = "loop"
    /\ IF retry.attempt >= retry.max_retries
       THEN retry' = [retry EXCEPT !.pc = "returned"]
       ELSE \E exit \in ChildExits :
               LET ran == [retry EXCEPT !.runs = Append(@, exit)] IN
               retry' = IF ExitStatus(exit) = 0
                        THEN [ran EXCEPT !.pc = "returned"]
                        ELSE IF Has429Error(ErrOutput(retry.script_name, exit))
                        THEN [ran EXCEPT !.pc = "returned"]
                        ELSE [ran EXCEPT !.pc = "sleep",
                                         !.attempt = NextAttempt(@)]

\* time.sleep(wait_time)
SleepReturns ==
    /\ retry.pc = "sleep"
    /\ retry' = [retry EXCEPT !.pc = "loop", !.slept = @ + RetryWaitTime]

(***************************************************************************)
(* parse_daily_single_index of the "EDGAR" driver on the filings an index  *)
(* file lists with a target form, given the table it finds.                *)
(***************************************************************************)
\* the outcomes of the request of get_company_recent_filings
ApiEvents == {"200", "404", "429", "exception"}

\* the tables add_filing can have built: a record for some of the filings
Tables ==
    {{FilingData(FilingCik(f), FilingAcc(f), FilingForm(f), 1) : f \in S} :
        S \in SUBSET Filings}

\* get_company_recent_filings, lines 256-290: the list recent_filings, or []
\* when an Exception was caught; SystemExit of safe_request leaves the function
get_company_recent_filings(ev) ==
    LET r == safe_request(ev) IN
    IF r.exit # "" THEN [raised |-> TRUE, type |-> "list", len |-> 0]
    ELSE IF r.status >= 400 THEN [raised |-> FALSE, type |-> "list", len |-> 0]
    ELSE [raised |-> FALSE, type |-> "list", len |-> 1]

\* the body of the loop, lines 258-287, for a listed filing f.  In the branch
\* of a dict record download_filing runs (it records the filings of
\* `downloads`) and the unpacking of its result into two names raises, which
\* is counted as an error
ProcessListed(st, f, ev, downloads) ==
    LET cik == FilingCik(f)
        accession_number == FilingAcc(f)
        d1 == IF is_filing_downloaded(st.db, cik, accession_number)
              THEN delete_filing_record(st.db, cik, accession_number).db
              ELSE st.db
        record == get_company_recent_filings(ev) IN
    IF record.raised THEN [st EXCEPT !.db = d1, !.raised = TRUE]
    ELSE IF record.len > 0 /\ record.type = "dict"
         THEN [st EXCEPT
                 !.db = IF f \in downloads
                        THEN add_filing(d1, FilingData(cik, accession_number,
                                                       FilingForm(f), 1), "none").db
                        ELSE d1,
                 !.readded = IF f \in downloads THEN @ \cup {f} ELSE @,
                 !.stats = Counted(@, "errors")]
         ELSE [st EXCEPT !.db = d1, !.stats = Counted(@, "skipped")]

RECURSIVE ParseListed(_, _, _, _)
\* for line in lines[data_start:], until an exception leaves the loop
ParseListed(st, listing, evs, downloads) ==
    IF listing = <<>> \/ st.raised THEN st
    ELSE ParseListed(ProcessListed(st, Head(listing), Head(evs), downloads),
                     Tail(listing), Tail(evs), downloads)

\* parse_daily_single_index, lines 231-290, after the index file was read
parse_daily_single_index(d, listing, evs, downloads) ==
    ParseListed([db |-> d, stats |-> ZeroStats, readded |-> {}, raised |-> FALSE],
                listing, evs, downloads)

CallParseDailySingleIndex ==
    /\ call = NoCall
    /\ \E d \in Tables, listing \in Listings(NFilings), downloads \in {{}, Filings} :
          \E evs \in [DOMAIN listing -> ApiEvents] :
             call' = [fn |-> "parse_daily_single_index",
                      arg |-> [db |-> d, listing |-> listing, evs |-> evs,
                               downloads |-> downloads],
                      ret |-> parse_daily_single_index(d, listing, evs, downloads)]

(***************************************************************************)
(* The other specifications.                                               *)
(***************************************************************************)
InitId == IdInit /\ StoreInit /\ RLInit /\ timed = TRUE /\ OrchParked

NextId ==
    /\ \/ ComputeId
       \/ ForgetIds
    /\ UNCHANGED <<call, loop, retry, db, storeVars, rlVars, orchVars>>

SpecId == InitId /\ [][NextId]_vars

InitCalls == InitId

NextCalls ==
    /\ \/ Forget
       \/ CallParseIndex
       \/ CallExtract
       \/ CallRequiredUrls
       \/ CallDetermineQtr
       \/ CallExtractFiscal
       \/ CallCreateFilename
       \/ CallParseDailySingleIndex
    /\ UNCHANGED <<idlog, loop, retry, db, storeVars, rlVars, orchVars>>

SpecCalls == InitCalls /\ [][NextCalls]_vars

InitRange == InitId

NextRange ==
    /\ \/ CallYearRange
       \/ NextYear
       \/ EnterQuarter
       \/ ParseNextIndex
       \/ ReachNextFiling
       \/ FilingReturns
    /\ UNCHANGED <<idlog, call, retry, db, storeVars, rlVars, orchVars>>

SpecRange == InitRange /\ [][NextRange]_vars

InitRetry == InitId

NextRetry ==
    /\ \/ CallRetry
       \/ RunScript
       \/ SleepReturns
    /\ UNCHANGED <<idlog, call, loop, db, storeVars, rlVars, orchVars>>

\* a child process ends and time.sleep returns
FairSpecRetry ==
    /\ InitRetry /\ [][NextRetry]_vars
    /\ WF_vars(RunScript /\ UNCHANGED <<idlog, call, loop, db, storeVars, rlVars, orchVars>>)
    /\ WF_vars(SleepReturns /\ UNCHANGED <<idlog, call, loop, db, storeVars, rlVars, orchVars>>)

InitStore == StoreInit /\ IdInit /\ RLInit /\ timed = TRUE /\ OrchParked

NextStore ==
    /\ \/ StoreAdd
       \/ StoreDelete
       \/ StoreCheck
    /\ UNCHANGED <<downloaded_cache, batch, idVars, rlVars, orchVars>>

SpecStore == InitStore /\ [][NextStore]_vars

InitCache == InitStore

NextCache ==
    /\ \/ CacheAdd
       \/ CacheDelete
       \/ BatchCheckCached
       \/ BatchCheck
    /\ UNCHANGED <<idVars, rlVars, orchVars>>

SpecCache == InitCache /\ [][NextCache]_vars

InitRL == RLInit /\ timed = TRUE /\ IdInit /\ StoreInit /\ OrchParked

NextRL ==
    /\ \/ Construct
       \/ Tick
       \/ \E t \in Threads : Call(t)
       \/ \E t \in Threads : Lock(t)
       \/ \E t \in Threads : Refill(t)
       \/ \E t \in Threads : Test(t)
       \/ \E t \in Threads : Wake(t)
    /\ UNCHANGED <<idVars, db, storeVars, orchVars>>

SpecRL == InitRL /\ [][NextRL]_vars

\* The callers call without bound and are not timed.  Time passes, a caller that
\* can take a step takes it, and the lock is granted fairly: a caller that finds
\* the lock free again and again gets it
InitLive == RLInit /\ timed = FALSE /\ IdInit /\ StoreInit /\ OrchParked

FairSpecRL ==
    /\ InitLive /\ [][NextRL]_vars
    /\ WF_vars(Tick /\ UNCHANGED <<idVars, db, storeVars, orchVars>>)
    /\ \A t \in Threads :
          /\ SF_vars(Lock(t) /\ UNCHANGED <<idVars, db, storeVars, orchVars>>)
          /\ WF_vars(Refill(t) /\ UNCHANGED <<idVars, db, storeVars, orchVars>>)
          /\ WF_vars(Test(t) /\ UNCHANGED <<idVars, db, storeVars, orchVars>>)
          /\ WF_vars(Wake(t) /\ UNCHANGED <<idVars, db, storeVars, orchVars>>)

(***************************************************************************)
(* The claims.                                                             *)
(***************************************************************************)
Untouched(v) == v.reqs = <<>> /\ v.downloaded = {} /\ ~v.added

\* C1: a filing that has a record in the store when the driver reaches it is
\* skipped: until the driver moves on no request is issued for it, no file is
\* written, the store is not written, and it is counted as skipped.
C1_SkippedWithoutFetch ==
    (visit.f # 0 /\ visit.inDb) =>
        /\ Untouched(visit)
        /\ visit.done => visit.count = "skipped"

\* C2: download_filing adds a record only if at least one document was downloaded;
\* a filing that download_filing finished with no document has no record and is
\* counted as failed.
C2_CommitOnlyIfDownloaded ==
    (visit.f # 0 /\ ~visit.inDb) =>
        /\ HasRow(db, visit.f) => (visit.added /\ visit.downloaded # {})
        /\ (visit.done /\ visit.checked /\ visit.downloaded = {}) =>
               (visit.count = "failed" /\ ~HasRow(db, visit.f))

C2_Witness ==
    /\ visit.done /\ visit.checked /\ visit.downloaded = {}
    /\ visit.count = "failed"
    /\ "financial_report_xlsx" \in Range(visit.reqs)

\* C3: a filing of which a selected document (primary document, XBRL file,
\* exhibit, or the complete submission text) failed has no record.
C3_NoRecordIfSelectedFailed ==
    (visit.f # 0 /\ visit.selFailed) => ~HasRow(db, visit.f)

FatalPcs == {"exit_429", "exit_403", "exit_connection", "exit_interrupt"}

\* C4: when the process is aborted (429, 403, connection error, interrupt) while
\* a filing is processed, after its existence check and before its commit, the
\* store holds no record of that filing.
C4_NoRecordAfterAbort ==
    (pc \in FatalPcs /\ visit.checked /\ ~visit.done) => ~HasRow(db, visit.f)

C4_Witness ==
    /\ pc = "exit_429" /\ visit.checked /\ ~visit.done
    /\ visit.downloaded # {}

\* C5 as stated: on a run that follows a completed run over the same archive,
\* every filing found (again) is counted as skipped, nothing is fetched or
\* written for it and the store is not written.
C5_SecondRunAllSkipped ==
    (variant = "Copy" /\ run >= 2 /\ prevDone /\ visit.f # 0 /\ visit.seen) =>
        /\ Untouched(visit)
        /\ visit.done => visit.count = "skipped"

\* C5 as amended: on a run that follows a completed run, every filing that has a
\* record when the driver reaches it is counted as skipped: no request is issued
\* for it, no file is written and no record is added.
C5_RecordedAreSkipped ==
    (variant = "Copy" /\ run >= 2 /\ prevDone /\ visit.f # 0 /\ visit.inDb) =>
        /\ Untouched(visit)
        /\ visit.done /\ visit.count = "skipped"

C5_Witness ==
    /\ variant = "Copy" /\ run >= 2 /\ prevDone
    /\ visit.f # 0 /\ visit.inDb /\ visit.count = "skipped"

LastCik == FilingCik(last.f)

LastAcc == FilingAcc(last.f)

\* C6: is_filing_downloaded is true right after a successful add_filing of that
\* identity and false right after delete_filing_record of it, whatever came before.
C6_AddThenDelete ==
    /\ (last.op = "add" /\ last.ok) => is_filing_downloaded(db, LastCik, LastAcc)
    /\ last.op = "delete" => ~is_filing_downloaded(db, LastCik, LastAcc)

C6_Witness == last.op = "delete" /\ last.result = 1 /\ db # {}

\* C7: two different (cik, accession) pairs never get the same filing_id, and the
\* writer and the two readers compute the same filing_id for a pair.
C7_FilingIdInjective ==
    \A i, j \in DOMAIN idlog :
        /\ idlog[i].w = idlog[j].w =>
               (idlog[i].cik = idlog[j].cik /\ idlog[i].acc = idlog[j].acc)
        /\ idlog[i].r = idlog[i].w
        /\ idlog[i].d = idlog[i].w

C7_Witness ==
    /\ Len(idlog) = 2
    /\ idlog[1].cik # idlog[2].cik
    /\ idlog[1].cik \o idlog[1].acc = idlog[2].cik \o idlog[2].acc

\* C8: with capacity C >= 1, the N-th return of a caller, N > C, comes no earlier
\* than (N - C) / refill_rate seconds, that is (N - C) * Scale ticks, after its
\* first call.
C8_MinimumDuration ==
    \A t \in Threads :
        (timed /\ rl.capacity >= 1 /\ hist[t].returns > rl.capacity) =>
            hist[t].lastReturn >= (hist[t].returns - rl.capacity) * Scale

\* C9: every acquire() call returns.
C9_AcquireReturns == \A t \in Threads : (rpc[t] = "lock") ~> (rpc[t] = "idle")

C9_Witness ==
    \E t, u \in Threads :
        /\ t # u
        /\ rpc[t] = "lock"
        /\ rpc[u] = "sleep" /\ rl.lock = u /\ nap[u] > 0

\* C10: no rate limiter with capacity 0 exists.
C10_ZeroCapacityRejected == rl.built => rl.capacity >= 1

\* the positions of acquire() inside the with block
InsidePcs == {"refill", "test", "sleep"}

\* C11: at most one caller is inside the refill-and-consume sequence, it is the
\* caller that holds the lock, and the token count never goes below zero.
C11_MutualExclusion ==
    /\ \A t, u \in Threads :
          (rpc[t] \in InsidePcs /\ rpc[u] \in InsidePcs) => t = u
    /\ \A t \in Threads : rpc[t] \in InsidePcs <=> rl.lock = t
    /\ rl.tokens >= 0 /\ rl.tokens <= rl.capacity * Scale

C11_Witness ==
    \E t, u \in Threads :
        /\ t # u
        /\ rpc[t] = "lock"
        /\ rpc[u] = "test" /\ rl.lock = u /\ rl.tokens >= Scale

StopEvents == {"429", "403", "connection_error"}

StopPc(ev) ==
    CASE ev = "429" -> "exit_429"
      [] ev = "403" -> "exit_403"
      [] ev = "connection_error" -> "exit_connection"

\* C12: the step whose request meets a 429, a 403 or a connection error leaves
\* the run at the matching exit and adds no record; from an exit the only step
\* left is the start of the next run, which issues no request and adds nothing.
C12_RunStops ==
    /\ [](lastEv \in StopEvents => pc = StopPc(lastEv))
    /\ [][lastEv' \in StopEvents => db' = db]_vars
    /\ [][(pc \in ExitPcs) => (run' = run + 1 /\ lastEv' = "none" /\ db' = db)]_vars

C12_Witness ==
    /\ lastEv = "429" /\ pc = "exit_429"
    /\ visit.downloaded # {} /\ ~visit.added /\ ~HasRow(db, visit.f)

SoftEvents == {"timeout", "404", "500"}

\* C13: the step whose request meets a timeout, a 404 or a status of 500 or
\* more never ends the run: the driver is still at a filing, an index file or
\* a quarter afterwards.
C13_SoftFailureContinues ==
    lastEv \in SoftEvents => pc \notin ExitPcs \cup {"crashed"}

FatalEvents == {"429", "403", "connection_error", "keyboard_interrupt"}

FatalExits == {"exit_429", "exit_403", "exit_connection", "exit_interrupt"}

\* C14: a run that has ended before the year range was processed has ended at
\* the exit of a 429, a 403, a connection failure or a user interrupt, and the
\* last request of the run met that event.
C14_OnlyFourEventsEndARun ==
    pc \in ExitPcs \cup {"crashed"} => (pc \in FatalExits /\ lastEv \in FatalEvents)

\* C15: all the requests of a run have called acquire() on one and the same
\* limiter object.
C15_OneSharedLimiter == Cardinality(acquired) <= 1

\* the order of the requests of the filing at hand, and where its add comes
FilingOrder ==
    LET R == visit.reqs IN
    /\ R # <<>> => (visit.checked /\ R[1] = "index")
    /\ Len(R) >= 2 => (R[2] = "complete_txt" /\ \A i \in 2..Len(R) : R[i] # "index")
    /\ visit.added => (visit.done /\ R[Len(R)] = "financial_report_xlsx")

\* C16: in the "EDGAR - Copy" driver nothing is fetched for a filing before
\* the existence check, the index page comes first and the submission text
\* second, a record is written only by the last step of a filing that had none
\* written yet, a filing that is done gets no further request, and an index
\* page that did not come back with status 200 ends the filing as failed with
\* that one request and no write to the store.
C16_FixedOrder ==
    /\ [](variant = "Copy" => FilingOrder)
    /\ [][(variant = "Copy" /\ db' # db) =>
             (pc = "xlsx" /\ ~visit.added /\ visit'.added /\ visit'.done)]_vars
    /\ [][(variant = "Copy" /\ visit.done) =>
             (visit' = visit \/ visit'.reqs = <<>>)]_vars
    /\ [][(variant = "Copy" /\ pc = "index" /\ lastEv' # "200" /\ pc' \notin ExitPcs) =>
             (visit'.done /\ visit'.count = "failed" /\ visit'.reqs = <<"index">>
              /\ ~visit'.added /\ db' = db)]_vars

C16_Witness ==
    /\ variant = "Copy" /\ visit.done /\ visit.added
    /\ visit.reqs = <<"index", "complete_txt", "10-K", "EX-31", "financial_report_xlsx">>

IndexFetchFailures == {"404", "400", "500", "timeout"}

\* C17: when the request for a filing's index page came back with another
\* status than 200 or timed out, the URL map download_filing holds for the
\* filing is the degraded one: the spreadsheet URL and complete_txt.
C17_DegradedMapOnFailedFetch ==
    (/\ visit.reqs # <<>>
     /\ visit.reqs[Len(visit.reqs)] = "index"
     /\ lastEv \in IndexFetchFailures) => visit.urls = UrlMap(<<>>)

\* how many of the requests issued for the filing went to complete_txt: the
\* metadata fetch is one, the plain-text download another
CompleteTxtRequests(v) ==
    Cardinality({i \in DOMAIN v.reqs : v.reqs[i] = "complete_txt"})

\* C18: when download_filing has come to the spreadsheet, the complete
\* submission text was downloaded (requested a second time, after the metadata
\* fetch) exactly if the URL map has no key equal to the filing's own form type.
C18_HtmlBundleIffOwnFormType ==
    (pc = "xlsx" /\ visit.urls # NoUrls) =>
        (CompleteTxtRequests(visit) = 2 <=> FilingForm(visit.f) \notin Range(visit.urls))

\* C19: what the cached batch check has just reported as present is what the
\* table holds of the ids asked about, which is also what batch_check_downloaded
\* and is_filing_downloaded say of them.
C19_CachedBatchAgrees ==
    batch.op = "cached" =>
        /\ batch.present = StoredIds(db) \cap Range(batch.ids)
        /\ batch.present = batch_check_downloaded(db, batch.ids)
        /\ \A f \in Filings : FilingIdOf(f) \in Range(batch.ids) =>
               (FilingIdOf(f) \in batch.present
                  <=> is_filing_downloaded(db, FilingCik(f), FilingAcc(f)))

\* C20: the table never holds two records of one filing_id, and on the table
\* as it stands an add_filing of any record succeeds, leaves exactly that record
\* under its filing_id, leaves every other record as it was, and leaves the
\* number of records as it was when the filing_id was already stored.
C20_AddIsUpsert ==
    /\ \A r1, r2 \in db : r1.filing_id = r2.filing_id => r1 = r2
    /\ (last.op = "add" /\ last.ok) =>
           Cardinality({r \in db : r.filing_id = FilingIdOf(last.f)}) = 1
    /\ \A f \in Filings, form \in FORM_TYPES, n \in 1..MaxFiles :
           LET row == FilingData(FilingCik(f), FilingAcc(f), form, n)
               res == add_filing(db, row, "none") IN
           /\ res.ok
           /\ {r \in res.db : r.filing_id = row.filing_id} = {row}
           /\ {r \in res.db : r.filing_id # row.filing_id}
                 = {r \in db : r.filing_id # row.filing_id}
           /\ row.filing_id \in StoredIds(db) => Cardinality(res.db) = Cardinality(db)

C20_Witness ==
    /\ last.op = "add" /\ last.ok /\ last.before = 1
    /\ Cardinality(db) = NFilings
    /\ \E r \in db : r.filing_id = FilingIdOf(last.f) /\ r.file_count = MaxFiles

\* C21: a failed add_filing (missing field or storage error) returns failure
\* and leaves the table as it was: on the table as it stands every failing add
\* gives the same table back, and after a failed add of a filing that had no
\* record is_filing_downloaded is false for it.
C21_FailedAddLeavesNoRecord ==
    /\ \A f \in Filings, form \in FORM_TYPES, n \in 1..MaxFiles,
          fault \in AddFaults \ {"none"} :
           add_filing(db, FilingData(FilingCik(f), FilingAcc(f), form, n), fault)
             = [db |-> db, ok |-> FALSE]
    /\ (last.op = "add" /\ ~last.ok) =>
           /\ Cardinality({r \in db : r.filing_id = FilingIdOf(last.f)}) = last.before
           /\ last.before = 0 => ~is_filing_downloaded(db, LastCik, LastAcc)

C21_Witness ==
    /\ last.op = "add" /\ ~last.ok /\ last.before = 0
    /\ db # {} /\ ~is_filing_downloaded(db, LastCik, LastAcc)

\* C22: on the table as it stands delete_filing_record removes the rows of
\* that filing_id and no other, and returns 1 if there was one and 0 if not,
\* in which case the table is unchanged; after a delete the filing has no row
\* and the count returned is the number of rows it had.
C22_DeleteRemovesExactlyOne ==
    /\ \A f \in Filings :
           LET id == FilingIdOf(f)
               res == delete_filing_record(db, FilingCik(f), FilingAcc(f)) IN
           /\ res.db = {r \in db : r.filing_id # id}
           /\ res.count = IF id \in StoredIds(db) THEN 1 ELSE 0
           /\ id \notin StoredIds(db) => res.db = db
    /\ last.op = "delete" =>
           /\ last.result = last.before /\ last.result \in {0, 1}
           /\ FilingIdOf(last.f) \notin StoredIds(db)

C22_Witness ==
    /\ last.op = "delete" /\ last.result = 1
    /\ Cardinality(db) = NFilings - 1

\* the lines of an index file after its first all-dash line (none without one)
\* that match the pattern and have a target form type
WantedLines(lines) ==
    LET d == FirstDashes(lines) IN
    IF d = 0 THEN <<>>
    ELSE SelectSeq(SubSeq(lines, d + 1, Len(lines)),
                   LAMBDA l : l.kind = "entry" /\ l.form_type \in FORM_TYPES)

\* C23: pure_parse_daily_single_index raises nothing and returns, in order,
\* one descriptor for each line after the first all-dash line that matches the
\* pattern and has a target form type; each descriptor has the line's form type
\* and accession number, and as cik the path segment before the file name
\* padded to 10 digits.
C23_OneDescriptorPerMatchingLine ==
    call.fn = "pure_parse_daily_single_index" =>
        LET wanted == WantedLines(call.arg) IN
        /\ ~call.ret.raised
        /\ Len(call.ret.filings) = Len(wanted)
        /\ \A i \in DOMAIN wanted :
               LET p == wanted[i].path
                   filing == call.ret.filings[i] IN
               /\ filing.form_type = wanted[i].form_type
               /\ filing.accession_number = p[Len(p)]
               /\ Len(p) >= 2 => filing.cik = zfill(p[Len(p) - 1], CIK_WIDTH)

Docs(m) == {m[i].value.doc : i \in DOMAIN m}

\* link ends in .htm, .html or .txt
HasDocExtension(href) ==
    \/ EndsWith(href, <<".", "h", "t", "m">>)
    \/ EndsWith(href, <<".", "h", "t", "m", "l">>)
    \/ EndsWith(href, <<".", "t", "x", "t">>)

\* C25: in the result of extract_sec_filing_data every link of the Document
\* Format Files map ends in .htm, .html or .txt, and the link of every row of
\* the Data Files section is in the Data Files map, whatever its extension
\* (rows that share their description with another row of the section, which
\* compete for one key, are left to C26).
C25_DocRowsFilteredDataRowsKept ==
    call.fn = "extract_sec_filing_data" =>
        LET data == call.arg.page.data IN
        /\ \A href \in Docs(call.ret.documentFormatFiles) : HasDocExtension(href)
        /\ \A i \in DOMAIN data :
               (\A j \in DOMAIN data \ {i} : data[j].description # data[i].description)
                  => data[i].href \in Docs(call.ret.dataFiles)

RetainedDocRows(page) == SelectSeq(page.doc, LAMBDA row : HasDocExtension(row.href))

\* C26: in the result of extract_sec_filing_data of "EDGAR - Copy" each
\* section map has as many entries as the section has retained rows: no row
\* overwrites another.
C26_OneKeyPerRetainedRow ==
    (call.fn = "extract_sec_filing_data" /\ call.arg.parser = "EDGAR - Copy") =>
        /\ Len(call.ret.documentFormatFiles) = Len(RetainedDocRows(call.arg.page))
        /\ Len(call.ret.dataFiles) = Len(call.arg.page.data)

\* the rows of the Document Format Files section that describe the complete
\* submission text file
CompleteRows(page) == {i \in DOMAIN page.doc : page.doc[i].description = COMPLETE_ROW}

\* C24: every URL map that required_urls returns has the keys complete_txt and
\* financial_report_xlsx; complete_txt is the link of the "Complete submission
\* text file" row when the page was read and has such a row, and otherwise the
\* input URL unmodified.
C24_CompleteTxtAlwaysPresent ==
    (call.fn = "required_urls" /\ ~call.ret.none) =>
        LET urls == call.ret.urls
            page == call.arg.page
            rows == CompleteRows(page) IN
        /\ {<<"complete_txt">>, <<"financial_report_xlsx">>} \subseteq Keys(urls)
        /\ IF call.arg.outcome = "ok" /\ rows # {}
           THEN \E i \in rows : Get(urls, <<"complete_txt">>) = Abs(page.doc[i].href)
           ELSE Get(urls, <<"complete_txt">>) = call.arg.filename

\* a page with a primary document and no complete submission text file row:
\* the map has the primary document and falls back to the input URL
C24_Witness ==
    /\ call.fn = "required_urls"
    /\ call.arg.outcome = "ok"
    /\ CompleteRows(call.arg.page) = {}
    /\ ~call.ret.none
    /\ <<"10-K">> \in Keys(call.ret.urls)
    /\ Get(call.ret.urls, <<"complete_txt">>) = call.arg.filename

\* a field of the FiscalInfo that holds None or was never assigned
IsUnset(v) == v \in {PyNone, Absent}

\* C27: for every fetch outcome that does not stop the program and every
\* submission text extract_fiscal_info_from_txt returns without raising; a
\* field whose pattern did not match is unset, and every field is unset when
\* the fetch failed or no pattern matches.
C27_FiscalInfoNeverRaises ==
    (call.fn = "extract_fiscal_info_from_txt" /\ call.arg.ev \notin FatalEvents) =>
        LET c == call.arg.content
            info == call.ret.fiscal_info IN
        /\ ~call.ret.raised
        /\ (call.arg.ev # "200" \/ c = NoContent) =>
               \A k \in DOMAIN info : IsUnset(info[k])
        /\ c.submission_type = PyNone =>
               IsUnset(info.form_type) /\ IsUnset(info.fiscal_period)
        /\ c.company_name = PyNone => IsUnset(info.company_name)
        /\ c.period_of_report = PyNone =>
               /\ IsUnset(info.period_end_date)
               /\ IsUnset(info.fiscal_year_end)
               /\ IsUnset(info.period_end_year)
        /\ c.date_filed = PyNone =>
               IsUnset(info.date_filed) /\ IsUnset(info.date_filed_year)
        /\ (c.fiscal_year = PyNone /\ c.period_of_report = PyNone) =>
               IsUnset(info.fiscal_year)


\* C28: in the FiscalInfo of a fetched submission text fiscal_period is FY when
\* the form type is 10-K or 10-K/A; for 10-Q and 10-Q/A it is the fiscal period
\* tag if the text has one and otherwise the quarter derived from
\* period_end_date; fiscal_year is the fiscal year tag if the text has one and
\* otherwise the first four digits of the period of report.
C28_FiscalPeriodAndYear ==
    (call.fn = "extract_fiscal_info_from_txt" /\ call.arg.ev = "200") =>
        LET c == call.arg.content
            info == call.ret.fiscal_info IN
        /\ info.form_type \in {F10K, F10KA} => info.fiscal_period = <<"F", "Y">>
        /\ info.form_type \in {F10Q, F10QA} =>
               IF c.fiscal_period # PyNone THEN info.fiscal_period = c.fiscal_period
               ELSE c.period_of_report # PyNone =>
                        info.fiscal_period = determine_QTR_from_date(info.period_end_date)
        /\ IF c.fiscal_year # PyNone THEN info.fiscal_year = c.fiscal_year
           ELSE c.period_of_report # PyNone =>
                    info.fiscal_year = SubSeq(c.period_of_report, 1, 4)

\* an amended quarterly report without tags, period of report 20230627:
\* the quarter and the year come from the period of report
C28_Witness ==
    /\ call.fn = "extract_fiscal_info_from_txt"
    /\ call.arg.ev = "200"
    /\ call.ret.fiscal_info.form_type = F10QA
    /\ call.arg.content.fiscal_period = PyNone
    /\ call.arg.content.fiscal_year = PyNone
    /\ call.arg.content.period_of_report = Raw(2023, 6, 27)
    /\ call.ret.fiscal_info.fiscal_period = Q2
    /\ call.ret.fiscal_info.fiscal_year = D4(2023)

\* the quarter the fixed mapping gives month m and day d
MappedQuarter(m, d) ==
    IF d >= 28 /\ m \in {3, 6, 9, 12}
    THEN (CASE m = 3 -> Q1 [] m = 6 -> Q2 [] m = 9 -> Q3 [] m = 12 -> Q4)
    ELSE IF m \in 1..4 THEN Q1
    ELSE IF m \in 5..7 THEN Q2
    ELSE IF m \in 8..10 THEN Q3
    ELSE Q4

RECURSIVE QuartersFrom(_, _, _)
\* the quarters of the years y..end_year from quarter on, oldest first,
\* without the quarters the driver leaves out
QuartersFrom(y, quarter, end_year) ==
    IF y > end_year THEN <<>>
    ELSE IF quarter > 4 THEN QuartersFrom(y + 1, 1, end_year)
    ELSE (IF SkipsQuarter(y, quarter) THEN <<>> ELSE << <<y, quarter>> >>)
         \o QuartersFrom(y, quarter + 1, end_year)

IsPrefix(a, b) == Len(a) <= Len(b) /\ a = SubSeq(b, 1, Len(a))

\* C30: download_year_range reaches the quarters of start_year..end_year in
\* ascending order of year and quarter, and all of them when it completes;
\* within a quarter the index files, and within an index file the filings, are
\* reached in the order of the listing; no quarter, index file or filing is
\* reached while download_filing is at work on a filing.
C30_ListingOrder ==
    /\ [](loop.pc # "idle" =>
            /\ IsPrefix(loop.quarters, QuartersFrom(loop.start, 1, loop.end))
            /\ loop.pc = "done" =>
                   loop.quarters = QuartersFrom(loop.start, 1, loop.end)
            /\ loop.pc \in {"index", "filing", "download"} =>
                   IsPrefix(loop.idxDone, loop.links)
            /\ loop.pc \in {"filing", "download"} =>
                   IsPrefix(loop.filDone, loop.filings))
    /\ [][(loop.pc = "download") =>
              /\ loop'.quarters = loop.quarters
              /\ loop'.idxDone = loop.idxDone
              /\ loop'.filDone = loop.filDone]_vars

\* in the second year of the range, at work on the second filing of the second
\* index file of a quarter
C30_Witness ==
    /\ loop.pc = "download"
    /\ loop.yk = 2
    /\ Len(loop.idxDone) = 2
    /\ Len(loop.filDone) = 2

\* C31: run_with_retry launches no attempt after the script left with the
\* SystemExit of a 429: such an exit is the last run of the call.
C31_NoRetryAfter429 ==
    \A i \in DOMAIN retry.runs : retry.runs[i] = "exit_429" => i = Len(retry.runs)

\* C39: run_with_retry terminates: once called it returns; it launches no
\* attempt after one that exited with status 0 and at most max_retries
\* attempts in all, and before every attempt but the first it has slept
\* wait_time seconds since the one before.
C39_RetryTerminates ==
    /\ (retry.pc = "loop") ~> (retry.pc = "returned")
    /\ [](/\ Len(retry.runs) <= retry.max_retries
          /\ \A i \in DOMAIN retry.runs :
                 retry.runs[i] = "done" => i = Len(retry.runs)
          /\ (retry.pc = "loop") => retry.slept = RetryWaitTime * Len(retry.runs))

\* max_retries attempts have failed, each followed by its wait, and the call
\* has returned
C39_Witness ==
    /\ retry.pc = "returned"
    /\ retry.max_retries = MaxRetries
    /\ Len(retry.runs) = MaxRetries
    /\ retry.runs[MaxRetries] # "done"
    /\ retry.slept = RetryWaitTime * MaxRetries

\* C32: on a limiter with capacity >= 1 a single acquire() call blocks its caller for at most 1 / refill_rate
\* seconds, that is Scale ticks: a sleep is computed from 0 <= tokens < 1 and
\* lasts no longer than that, and no call is kept waiting by time.sleep, its
\* own or that of the holder of the lock, for longer than that in all.
C32_BlockedAtMostOnePeriod ==
    \A t \in Threads : rl.capacity >= 1 =>
        /\ rpc[t] = "sleep" =>
               (rl.tokens >= 0 /\ rl.tokens < Scale /\ nap[t] <= Scale)
        /\ timed => (hist[t].waited <= Scale /\ hist[t].lastWait <= Scale)

\* C36: a SafeRateLimiter built with capacity C >= 1 has 0 <= tokens <= C in
\* every state, whatever the callers do and however time passes between
\* their clock readings.
C36_TokensWithinCapacity ==
    (rl.built /\ rl.capacity >= 1) =>
        (0 <= rl.tokens /\ rl.tokens <= rl.capacity * Scale)

\* a caller of a limiter of capacity 2 goes to sleep on a fraction of a token
C36_Witness ==
    \E t \in Threads :
        /\ rpc[t] = "sleep"
        /\ rl.capacity = 2
        /\ rl.tokens > 0 /\ rl.tokens < Scale

\* C37: the quarter determine_QTR_from_date returns depends on the month
\* only: for any other day of the calendar in the same month and year the
\* function returns the same quarter.
C37_QuarterDependsOnMonthOnly ==
    call.fn = "determine_QTR_from_date" =>
        \A y \in Years, m \in Months, d \in Days :
            (ValidDate(y, m, d) /\ call.arg = Iso(Raw(y, m, d))) =>
                \A e \in Days :
                    ValidDate(y, m, e) =>
                        determine_QTR_from_date(Iso(Raw(y, m, e))) = call.ret

\* 30 June, where the quarter-end rule applies, gives Q2 like 1 June
C37_Witness ==
    /\ call.fn = "determine_QTR_from_date"
    /\ call.arg = Iso(Raw(2023, 6, 30))
    /\ call.ret = Q2
    /\ determine_QTR_from_date(Iso(Raw(2023, 6, 1))) = Q2

\* C33: create_filename returns a name for every FiscalInfo and never raises:
\* for a 10-Q with fiscal year and fiscal period, and for a 10-K with fiscal
\* year, the name holds them with the form; for every other FiscalInfo, the
\* all-unset one included, the name holds the report date or, without one,
\* the filing date.
C33_FilenameForEveryFiscalInfo ==
    call.fn = "create_filename" =>
        LET info == call.arg.fiscal_info
            form == info.form_type
            name == call.ret.name
            fallback == IF Truthy(call.arg.report_date) THEN call.arg.report_date
                        ELSE call.arg.filing_date IN
        /\ ~call.ret.raised
        /\ IF form \in {F10Q, F10QA} /\ Truthy(info.fiscal_year) /\ Truthy(info.fiscal_period)
           THEN /\ IsPrefix(info.fiscal_year, name)
                /\ \E i \in 1..(Len(name) - 1) :
                       SubSeq(name, i, i + 1) = info.fiscal_period
           ELSE IF form \in {F10K, F10KA} /\ Truthy(info.fiscal_year)
           THEN IsPrefix(info.fiscal_year \o <<"_", "1", "0", "-", "K">>, name)
           ELSE Truthy(fallback) /\ IsPrefix(Remove(fallback, "-"), name)

\* the cache holds as many entries as it takes
CacheFull == Cardinality(DOMAIN downloaded_cache) = cache_size_limit

\* C34: the existence cache never holds more entries than its limit; no step
\* removes or changes an entry it holds; and a batch check made while the cache
\* is full leaves the cache as it was and answers every id the cache does not
\* hold by what the table holds.
C34_CacheBoundedAndStable ==
    /\ [](Cardinality(DOMAIN downloaded_cache) <= cache_size_limit)
    /\ [][/\ \A id \in DOMAIN downloaded_cache :
                /\ id \in DOMAIN downloaded_cache'
                /\ downloaded_cache'[id] = downloaded_cache[id]
          /\ (CacheFull /\ batch'.op = "cached") =>
                /\ downloaded_cache' = downloaded_cache
                /\ \A id \in Range(batch'.ids) \ DOMAIN downloaded_cache :
                      id \in batch'.present <=> id \in StoredIds(db)]_vars

\* a batch check on a full cache has asked about a stored id the cache does
\* not hold: it is reported present and is still not cached
C34_Witness ==
    /\ batch.op = "cached"
    /\ CacheFull
    /\ \E id \in Range(batch.ids) \ DOMAIN downloaded_cache :
          id \in StoredIds(db) /\ id \in batch.present
    /\ \E id \in Range(batch.ids) \cap DOMAIN downloaded_cache : ~downloaded_cache[id]

\* the filings a statistics dict accounts for
Accounted(st) == st.downloaded + st.skipped + st.failed + st.errors

\* C35: in the statistics pure_parse_daily_index returns in "EDGAR - Copy" every
\* filing the index parser returned is counted once, in total_found and in
\* exactly one of downloaded, skipped, failed and errors; the totals that
\* download_year_range adds up from them balance in the same way.
C35_EveryFilingCountedOnce ==
    variant = "Copy" =>
        /\ pc = "qend" =>
              /\ stats.total_found = Accounted(stats)
              /\ stats.total_found \in {0, Len(Listing(q))}
        /\ overall.total_found = Accounted(overall)

\* a completed call whose totals hold a downloaded filing and one that was
\* skipped or failed
C35_Witness ==
    /\ variant = "Copy"
    /\ pc = "done"
    /\ overall.total_found = NFilings
    /\ overall.downloaded >= 1
    /\ overall.skipped + overall.failed >= 1

\* C38: parse_daily_single_index loses no completion record: a filing that had
\* a record in the table before the call has one afterwards, or its documents
\* were downloaded again and its record re-added during the call.
C38_NoCompletionRecordLost ==
    call.fn = "parse_daily_single_index" =>
        \A f \in Filings :
            HasRow(call.arg.db, f) =>
                HasRow(call.ret.db, f) \/ f \in call.ret.readded

====
